---- MODULE Spec2Model ----
(***************************************************************************)
(* Tranche: storm engine (internal/storm) and billing engine               *)
(* (internal/billing) over the shared relational store.                    *)
(*                                                                         *)
(* Time is a discrete clock.  Availabilities and thresholds are percent    *)
(* values (0.9 is 90).  Rows of a table are the elements of a sequence,    *)
(* the BIGSERIAL id of a row is its index.  A nullable timestamp is the    *)
(* record sql.NullTime has: [valid, time].                                 *)
(***************************************************************************)
EXTENDS Integers, Sequences, FiniteSets, TLC

\* ---------------------------------------------------------------- bounds
MaxTime == 3
MaxEvents == 2
MaxBillingTime == 4
MaxInvoiceSeq == 3
MaxMetricsTime == 2
MaxSamples == 2
MaxCalls == 2
MaxLoops == 4
MaxStorms == 2
MaxAttemptsConfig == 2
MaxUsages == 2
MaxBilledUsages == 1
MaxIngestRuns == 2
MaxStarts == 2
MaxRequests == 3
MaxCoverageTime == 3
MaxCoverageStorms == 2
MaxItems == 2
MaxEvaluations == 2
MaxLateTime == 6
MaxLateSnapshots == 2

\* ---------------------------------------------------------------- program constants
\* one time unit is half an hour
UsageWindow == 2
BillingPeriod == 48
UsageLookback == 12
RateCentsPerGB == 12

\* ---------------------------------------------------------------- domains
Services == {1, 2}
Workers == {1, 2}
Kinds == {"failover", "latency"}
Avails == {10, 70, 99}
StormFailures == {"none", "avail", "active", "last", "insert", "resolve"}

VARIABLES
    now,        \* the wall clock read by time.Now / NOW()
    policies,   \* storm_policies rows
    events,     \* storm_events rows
    tick,       \* the policies Engine.Tick has still to evaluate
    avail,      \* what the next MetricsView.Availability call returns
    lastErr,    \* the error the last evaluatePolicy call returned
    cfg,        \* billing.Config of the billing workers
    snapshots,  \* usage_snapshots rows
    invoices,   \* invoices rows (committed)
    lineItems,  \* invoice_line_items rows (committed)
    invoiceSeq, \* last value of the invoices id sequence
    tx,         \* per billing worker: its open transaction
    result,     \* per billing worker: what its last RunOnce returned
    metrics,    \* the InMemoryMetrics store of the prober
    lastCall,   \* the last Availability call: its number, its arguments and
                \* what it returned
    sched,      \* Scheduler.Run: where it is and its loops map
    procs,      \* the probeLoop goroutines started so far
    ctxDone,    \* the root context of the prober is cancelled
    schedDb,    \* the services and service_domains rows the prober reads
    passLog,    \* the last reconcile pass: the loops map at its start, the
                \* keys fetched, the services whose fetch failed
    lateProbe,  \* a probe loop has called RecordProbe after Run returned
    dnsOp,      \* the dns-operator: where it is and the services left in its
                \* pass
    dnsCalls,   \* the SetWeights calls of its current or last pass, in order
    dnsLog,     \* what that pass read: the services, the domains and the
                \* weights of each, and whether every read succeeded
    r53,        \* a Route53Provider, the record sets of its zone and the
                \* last SetWeights call made on it
    dnsProv,    \* the provider the dns-operator chose at startup, and what
                \* its readiness check last answered
    ing,        \* the usage ingestor: where its run is, the usage the
                \* provider returned and the upserts still to make
    ctl,        \* the control plane: the services table and the HTTP
                \* requests being served
    mig,        \* the advisory lock, schema_migrations, the migrations
                \* committed so far, and each starting binary
    cov,        \* the last call of coverageRatio: its arguments and result
    fetch,      \* an attempt of setWeightsOnce that pages through the record
                \* sets of a zone
    tgt,        \* the last call of targetsForService: the service, its
                \* domains and the targets returned
    eng,        \* the storm engines of two probers: where each is in its
                \* evaluatePolicy call and what it has read so far
    loop        \* one probe loop: where it is in its iteration, whether its
                \* context is cancelled, and the result of the probe in hand

stormVars == <<policies, events, tick, avail, lastErr>>
billingVars == <<cfg, snapshots, invoices, lineItems, invoiceSeq, tx, result>>
metricsVars == <<metrics, lastCall>>
schedVars == <<sched, procs, ctxDone, schedDb, passLog, lateProbe>>
dnsVars == <<dnsOp, dnsCalls, dnsLog>>
r53Vars == <<r53, dnsProv>>
opsVars == <<metricsVars, schedVars, dnsVars, r53Vars>>
usageVars == <<ing>>
migrationVars == <<mig>>
controlVars == <<ctl>>
coverageVars == <<cov>>
fetchVars == <<fetch>>
targetVars == <<tgt>>
tailVars == <<eng, loop>>
lateVars == <<fetchVars, targetVars, tailVars>>
restVars == <<usageVars, migrationVars, controlVars, coverageVars, lateVars>>
extVars == <<opsVars, restVars>>
vars == <<now, policies, events, tick, avail, lastErr,
          cfg, snapshots, invoices, lineItems, invoiceSeq, tx, result, extVars>>

\* ---------------------------------------------------------------- helpers
NullTime == [valid |-> FALSE, time |-> 0]
ValidTime(t) == [valid |-> TRUE, time |-> t]

ZeroStormEvent ==
    [id |-> 0, service_id |-> 0, kind |-> "", started_at |-> 0, ended_at |-> NullTime]

ErrNoRows == [err |-> "norows", row |-> ZeroStormEvent]
Row(e) == [err |-> "nil", row |-> e]

Indices(s) == 1..Len(s)

RECURSIVE SeqFromSet(_)
\* the elements of a finite set of integers in increasing order
SeqFromSet(S) ==
    IF S = {} THEN <<>>
    ELSE LET m == CHOOSE x \in S : \A y \in S : x <= y
         IN <<m>> \o SeqFromSet(S \ {m})

\* the row that ORDER BY started_at DESC LIMIT 1 returns among ids; rows with
\* the same started_at were inserted in id order, the later one wins
LatestOf(evs, ids) ==
    CHOOSE i \in ids : \A j \in ids :
        \/ evs[j].started_at < evs[i].started_at
        \/ evs[j].started_at = evs[i].started_at /\ j <= i

\* ---------------------------------------------------------------- storm queries
\* the query with ended_at IS NOT NULL in place of ended_at IS NULL
GetActiveStormForPolicy_closedOnly(evs, serviceID, kind) ==
    LET ids == {i \in Indices(evs) : /\ evs[i].service_id = serviceID
                                     /\ evs[i].kind = kind
                                     /\ evs[i].ended_at.valid}
    IN IF ids = {} THEN ErrNoRows ELSE Row(evs[LatestOf(evs, ids)])

\* the query without kind = $2
GetActiveStormForPolicy_anyKind(evs, serviceID, kind) ==
    LET ids == {i \in Indices(evs) : /\ evs[i].service_id = serviceID
                                     /\ ~evs[i].ended_at.valid}
    IN IF ids = {} THEN ErrNoRows ELSE Row(evs[LatestOf(evs, ids)])

\* WHERE service_id = $1 AND kind = $2 AND ended_at IS NULL
\* ORDER BY started_at DESC LIMIT 1
GetActiveStormForPolicy(evs, serviceID, kind) ==
    LET ids == {i \in Indices(evs) : /\ evs[i].service_id = serviceID
                                     /\ evs[i].kind = kind
                                     /\ ~evs[i].ended_at.valid}
    IN IF ids = {} THEN ErrNoRows ELSE Row(evs[LatestOf(evs, ids)])

GetLastStormEvent(evs, serviceID, kind) ==
    LET ids == {i \in Indices(evs) : /\ evs[i].service_id = serviceID
                                     /\ evs[i].kind = kind}
    IN IF ids = {} THEN ErrNoRows ELSE Row(evs[LatestOf(evs, ids)])

InsertStormEvent(evs, serviceID, kind, startedAt) ==
    Append(evs, [id |-> Len(evs) + 1, service_id |-> serviceID, kind |-> kind,
                 started_at |-> startedAt, ended_at |-> NullTime])

MarkStormEventResolved(evs, id, endedAt) ==
    [i \in Indices(evs) |->
        IF evs[i].id = id THEN [evs[i] EXCEPT !.ended_at = endedAt] ELSE evs[i]]

GetStormPoliciesForService(pols, serviceID) ==
    SeqFromSet({i \in Indices(pols) : pols[i].service_id = serviceID})

GetActiveServices == SeqFromSet(Services)

\* ---------------------------------------------------------------- storm engine
\* hasActive := err == nil
hasActive(res) == res.err = "nil"

\* the cooldown measured from started_at even when the event has ended
cooldownBlocks_startedAt(res, t, cooldown) ==
    /\ res.err = "nil"
    /\ cooldown > 0
    /\ t - res.row.started_at < cooldown

\* the cooldown test: a last event exists, cooldown_seconds > 0, and the event
\* ended (or, when open, started) less than the cooldown before t
cooldownBlocks(res, t, cooldown) ==
    /\ res.err = "nil"
    /\ cooldown > 0
    /\ IF res.row.ended_at.valid
       THEN t - res.row.ended_at.time < cooldown
       ELSE t - res.row.started_at < cooldown

insertParams(serviceID, p) ==
    [op |-> "insert", service_id |-> serviceID, kind |-> p.kind, id |-> 0,
     ended_at |-> NullTime]

\* the resolve stamped with the event's started_at
resolveParams_startedAt(activeStorm, t) ==
    [op |-> "resolve", service_id |-> 0, kind |-> "", id |-> activeStorm.id,
     ended_at |-> ValidTime(activeStorm.started_at)]

resolveParams(activeStorm, t) ==
    [op |-> "resolve", service_id |-> 0, kind |-> "", id |-> activeStorm.id,
     ended_at |-> ValidTime(t)]

\* evaluatePolicy with the cooldown also asked before closing
evaluatePolicy_cooldownOnClose(evs, serviceID, p, a, t, fail) ==
    LET active == GetActiveStormForPolicy(evs, serviceID, p.kind)
        last == GetLastStormEvent(evs, serviceID, p.kind)
    IN  IF fail = "avail" \/ fail = "active" THEN <<>>
        ELSE IF a < p.threshold_avail
        THEN IF hasActive(active) THEN <<>>
             ELSE IF fail = "last" THEN <<>>
             ELSE IF cooldownBlocks(last, t, p.cooldown_seconds) THEN <<>>
             ELSE <<insertParams(serviceID, p)>>
        ELSE IF hasActive(active)
             THEN IF cooldownBlocks(active, t, p.cooldown_seconds) THEN <<>>
                  ELSE <<resolveParams(active.row, t)>>
             ELSE <<>>

\* the store writes one evaluatePolicy call issues, in order; fail names the
\* statement that returns an error
evaluatePolicy(evs, serviceID, p, a, t, fail) ==
    LET active == GetActiveStormForPolicy(evs, serviceID, p.kind)
        last == GetLastStormEvent(evs, serviceID, p.kind)
    IN  IF fail = "avail" \/ fail = "active" THEN <<>>
        ELSE IF a < p.threshold_avail
        THEN IF hasActive(active) THEN <<>>
             ELSE IF fail = "last" THEN <<>>
             ELSE IF cooldownBlocks(last, t, p.cooldown_seconds) THEN <<>>
             ELSE <<insertParams(serviceID, p)>>
        ELSE IF hasActive(active) THEN <<resolveParams(active.row, t)>>
             ELSE <<>>

\* the error one evaluatePolicy call returns: the failing statement when the
\* call reaches it, "none" otherwise
returnedError(evs, serviceID, p, a, t, fail) ==
    LET ops == evaluatePolicy(evs, serviceID, p, a, t, fail)
        active == GetActiveStormForPolicy(evs, serviceID, p.kind)
    IN  IF fail = "avail" \/ fail = "active" THEN "error"
        ELSE IF fail = "last" /\ a < p.threshold_avail /\ ~hasActive(active) THEN "error"
        ELSE IF ops # <<>> /\ fail = ops[1].op THEN "error"
        ELSE "none"

\* the store after the writes of one call; a failing statement changes nothing
ApplyStormWrites(evs, ops, t, fail) ==
    IF ops = <<>> THEN evs
    ELSE IF ops[1].op = "insert"
         THEN IF fail = "insert" THEN evs
              ELSE InsertStormEvent(evs, ops[1].service_id, ops[1].kind, t)
         ELSE IF fail = "resolve" THEN evs
              ELSE MarkStormEventResolved(evs, ops[1].id, ops[1].ended_at)

\* ---------------------------------------------------------------- billing: arithmetic
\* int64(n/d): the fraction cut off
RoundDiv_truncates(n, d) == n \div d

\* math.Round of n/d for d > 0: to the nearest integer, halves away from zero
RoundDiv(n, d) ==
    IF n >= 0 THEN (2 * n + d) \div (2 * d)
    ELSE -((2 * (-n) + d) \div (2 * d))

\* a float64 the model holds exactly, as a fraction with den > 0
Frac(n, d) == [num |-> n, den |-> d]
FracLess(x, y) == x.num * y.den < y.num * x.den
FracEq(x, y) == x.num * y.den = y.num * x.den

\* stored max_coverage_factor values are counted in halves (3 is 1.5)
CoverageScale == 2
\* BILLING_DISCOUNT_RATE values are counted in halves (1 is 0.5)
DiscountScale == 2

Pow2_15 == 32768

\* the environment's defaults (config.Load)
DefaultConfig ==
    [Period |-> BillingPeriod, RateCentsPerGB |-> RateCentsPerGB, DiscountRate |-> 1]

\* NewEngine: a period or rate that is not positive gets its default, a
\* negative discount rate becomes 0
NewEngine(raw) ==
    [Period |-> IF raw.Period <= 0 THEN BillingPeriod ELSE raw.Period,
     RateCentsPerGB |-> IF raw.RateCentsPerGB <= 0 THEN RateCentsPerGB
                        ELSE raw.RateCentsPerGB,
     DiscountRate |-> IF raw.DiscountRate < 0 THEN 0 ELSE raw.DiscountRate]

\* round(bytes / 2^30 * rate), computed in two 15-bit limbs so that no
\* intermediate value leaves 32 bits
chargeForBytes(bytes, rate) ==
    IF bytes <= 0 THEN 0
    ELSE LET a == bytes \div Pow2_15
             b == bytes % Pow2_15
         IN (a * rate + (Pow2_15 \div 2) + ((b * rate) \div Pow2_15)) \div Pow2_15

\* ---------------------------------------------------------------- billing: coverage
Min(a, b) == IF a < b THEN a ELSE b
Max(a, b) == IF a < b THEN b ELSE a

RECURSIVE clipStorms(_, _, _)
\* coverageRatio, first loop: each storm clipped to the window, dropped when
\* its end precedes its start
clipStorms(windowStart, windowEnd, storms) ==
    IF storms = <<>> THEN <<>>
    ELSE LET storm == Head(storms)
             start == IF storm.started_at < windowStart THEN windowStart
                      ELSE storm.started_at
             end == IF storm.ended_at.valid /\ storm.ended_at.time < windowEnd
                    THEN storm.ended_at.time ELSE windowEnd
             rest == clipStorms(windowStart, windowEnd, Tail(storms))
         IN IF end < start THEN rest ELSE <<[start |-> start, end |-> end]>> \o rest

RECURSIVE sortByStart(_)
\* sort.Slice by start; intervals with equal starts keep their order
sortByStart(ivs) ==
    IF ivs = <<>> THEN <<>>
    ELSE LET m == CHOOSE i \in Indices(ivs) :
                     \A j \in Indices(ivs) :
                        \/ ivs[i].start < ivs[j].start
                        \/ ivs[i].start = ivs[j].start /\ i <= j
         IN <<ivs[m]>> \o sortByStart(SubSeq(ivs, 1, m - 1) \o SubSeq(ivs, m + 1, Len(ivs)))

\* every interval kept as it is
mergeIntervals_keepsAll(merged, ivs) == merged \o ivs

RECURSIVE mergeIntervals(_, _)
\* coverageRatio, merge loop: merged is never empty
mergeIntervals(merged, ivs) ==
    IF ivs = <<>> THEN merged
    ELSE LET iv == Head(ivs)
             last == merged[Len(merged)]
         IN IF iv.start > last.end
            THEN mergeIntervals(Append(merged, iv), Tail(ivs))
            ELSE IF iv.end > last.end
                 THEN mergeIntervals([merged EXCEPT ![Len(merged)].end = iv.end], Tail(ivs))
                 ELSE mergeIntervals(merged, Tail(ivs))

RECURSIVE sumCovered(_)
sumCovered(ivs) ==
    IF ivs = <<>> THEN 0
    ELSE (Head(ivs).end - Head(ivs).start) + sumCovered(Tail(ivs))

coverageRatio(windowStart, windowEnd, storms) ==
    LET duration == windowEnd - windowStart
        intervals == clipStorms(windowStart, windowEnd, storms)
    IN IF duration <= 0 THEN Frac(0, 1)
       ELSE IF intervals = <<>> THEN Frac(0, 1)
       ELSE LET sorted == sortByStart(intervals)
                merged == mergeIntervals(<<sorted[1]>>, Tail(sorted))
                covered == sumCovered(merged)
            IN Frac(Min(covered, duration), duration)

\* ---------------------------------------------------------------- billing: queries
RECURSIVE OrderBy(_, _, _)
\* the ids of S ordered by key[id]; rows with equal keys come in id order
OrderBy(rows, S, field) ==
    IF S = {} THEN <<>>
    ELSE LET m == CHOOSE i \in S : \A j \in S :
                     \/ rows[i][field] < rows[j][field]
                     \/ rows[i][field] = rows[j][field] /\ i <= j
         IN <<m>> \o OrderBy(rows, S \ {m}, field)

Range(f) == {f[i] : i \in DOMAIN f}

\* services.customer_id
CustomerOf(serviceID) == serviceID

GetStormEventsForWindow(evs, serviceID, windowEnd, windowStart) ==
    LET ids == {i \in Indices(evs) :
                   /\ evs[i].service_id = serviceID
                   /\ evs[i].started_at < windowEnd
                   /\ (~evs[i].ended_at.valid \/ evs[i].ended_at.time > windowStart)}
        order == OrderBy(evs, ids, "started_at")
    IN [k \in Indices(order) |-> evs[order[k]]]

\* COALESCE(MAX(max_coverage_factor), 1.0), in halves
GetMaxCoverageFactorForService(pols, serviceID) ==
    LET vals == {pols[i].max_coverage_factor :
                    i \in {j \in Indices(pols) : pols[j].service_id = serviceID}}
    IN IF vals = {} THEN CoverageScale
       ELSE CHOOSE v \in vals : \A u \in vals : u <= v

\* the usage_snapshots and services rows a transaction holds FOR UPDATE
LockedSnapshots(t) == IF t.phase = "idle" THEN {} ELSE Range(t.snaps)
LockedBy(txs, others) == UNION {LockedSnapshots(txs[w]) : w \in others}
LockedServices(snaps, txs, others) == {snaps[i].service_id : i \in LockedBy(txs, others)}

\* the query without FOR UPDATE SKIP LOCKED
LockUnbilledUsageSnapshots_noLock(snaps, txs, me, windowEnd, windowStart) ==
    OrderBy(snaps,
            {i \in Indices(snaps) :
                /\ ~snaps[i].invoice_id.valid
                /\ snaps[i].window_end <= windowEnd
                /\ snaps[i].window_end > windowStart},
            "window_start")

\* the query without invoice_id IS NULL
LockUnbilledUsageSnapshots_billedToo(snaps, txs, me, windowEnd, windowStart) ==
    OrderBy(snaps,
            {i \in Indices(snaps) :
                /\ snaps[i].window_end <= windowEnd
                /\ snaps[i].window_end > windowStart
                /\ i \notin LockedBy(txs, Workers \ {me})
                /\ snaps[i].service_id \notin LockedServices(snaps, txs, Workers \ {me})},
            "window_start")

\* the ids the query returns to worker me, in order; FOR UPDATE locks the
\* usage_snapshots row and the joined services row, SKIP LOCKED leaves out a
\* row when another transaction holds either
LockUnbilledUsageSnapshots(snaps, txs, me, windowEnd, windowStart) ==
    OrderBy(snaps,
            {i \in Indices(snaps) :
                /\ ~snaps[i].invoice_id.valid
                /\ snaps[i].window_end <= windowEnd
                /\ snaps[i].window_end > windowStart
                /\ i \notin LockedBy(txs, Workers \ {me})
                /\ snaps[i].service_id \notin LockedServices(snaps, txs, Workers \ {me})},
            "window_start")

MarkUsageSnapshotInvoiced(snaps, invoiceID, id) ==
    [i \in Indices(snaps) |->
        IF snaps[i].id = id
        THEN [snaps[i] EXCEPT !.invoice_id = [valid |-> TRUE, int64 |-> invoiceID]]
        ELSE snaps[i]]

\* ---------------------------------------------------------------- billing: RunOnce
\* lines 96-99: coverage of one snapshot
coverageFor(ratio, maxCoverage) ==
    LET coverage == Frac(ratio.num * maxCoverage, ratio.den * CoverageScale)
        cap == Frac(maxCoverage, CoverageScale)
    IN IF FracLess(cap, coverage) THEN cap ELSE coverage

\* the discount without the cut at the line subtotal
discountFor_unclamped(backupCharge, discountRate, coverage, lineSubtotal) ==
    RoundDiv(backupCharge * discountRate * coverage.num, DiscountScale * coverage.den)

\* lines 103-106: the discount of one line
discountFor(backupCharge, discountRate, coverage, lineSubtotal) ==
    LET discount == RoundDiv(backupCharge * discountRate * coverage.num,
                             DiscountScale * coverage.den)
    IN IF discount > lineSubtotal THEN lineSubtotal ELSE discount

\* lines 84-107 and 129-138: the line item of one snapshot
lineFor(c, evs, pols, snap) ==
    LET storms == GetStormEventsForWindow(evs, snap.service_id, snap.window_end,
                                          snap.window_start)
        maxCoverage == GetMaxCoverageFactorForService(pols, snap.service_id)
        coverage == coverageFor(coverageRatio(snap.window_start, snap.window_end, storms),
                                maxCoverage)
        lineSubtotal == chargeForBytes(snap.primary_bytes, c.RateCentsPerGB)
                        + chargeForBytes(snap.backup_bytes, c.RateCentsPerGB)
        backupCharge == chargeForBytes(snap.backup_bytes, c.RateCentsPerGB)
        discount == discountFor(backupCharge, c.DiscountRate, coverage, lineSubtotal)
    IN [service_id |-> snap.service_id, window_start |-> snap.window_start,
        window_end |-> snap.window_end, primary_bytes |-> snap.primary_bytes,
        backup_bytes |-> snap.backup_bytes, coverage_factor |-> coverage,
        amount_cents |-> lineSubtotal, discount_cents |-> discount]

newInvoiceBuild(snap) ==
    [customerID |-> CustomerOf(snap.service_id), periodStart |-> snap.window_start,
     periodEnd |-> snap.window_end, subtotal |-> 0, discount |-> 0, total |-> 0,
     snapshotIDs |-> <<>>, items |-> <<>>]

\* the accumulation with the line's discount left out of the total
addLine_totalIsSubtotal(inv, snap, item) ==
    [inv EXCEPT !.periodStart = Min(inv.periodStart, snap.window_start),
                !.periodEnd = Max(inv.periodEnd, snap.window_end),
                !.subtotal = inv.subtotal + item.amount_cents,
                !.discount = inv.discount + item.discount_cents,
                !.total = inv.total + item.amount_cents,
                !.snapshotIDs = Append(inv.snapshotIDs, snap.id),
                !.items = Append(inv.items, item)]

\* the accumulation with the period left at the first snapshot's window
addLine_firstPeriod(inv, snap, item) ==
    [inv EXCEPT !.subtotal = inv.subtotal + item.amount_cents,
                !.discount = inv.discount + item.discount_cents,
                !.total = inv.total + (item.amount_cents - item.discount_cents),
                !.snapshotIDs = Append(inv.snapshotIDs, snap.id),
                !.items = Append(inv.items, item)]

\* lines 118-138: one line accumulated into its customer's invoice
addLine(inv, snap, item) ==
    [inv EXCEPT !.periodStart = Min(inv.periodStart, snap.window_start),
                !.periodEnd = Max(inv.periodEnd, snap.window_end),
                !.subtotal = inv.subtotal + item.amount_cents,
                !.discount = inv.discount + item.discount_cents,
                !.total = inv.total + (item.amount_cents - item.discount_cents),
                !.snapshotIDs = Append(inv.snapshotIDs, snap.id),
                !.items = Append(inv.items, item)]

RECURSIVE buildInvoices(_, _, _, _, _, _)
\* lines 83-139: the loop over the locked snapshots; the result maps each
\* customer that has a snapshot to its invoiceBuild
buildInvoices(c, evs, pols, snaps, ids, built) ==
    IF ids = <<>> THEN built
    ELSE LET snap == snaps[Head(ids)]
             cust == CustomerOf(snap.service_id)
             inv == IF cust \in DOMAIN built THEN built[cust] ELSE newInvoiceBuild(snap)
             next == addLine(inv, snap, lineFor(c, evs, pols, snap))
         IN buildInvoices(c, evs, pols, snaps, Tail(ids),
                          [k \in DOMAIN built \cup {cust} |->
                              IF k = cust THEN next ELSE built[k]])

\* line 144: the items of an invoice sorted by window_start
sortItems(items) ==
    LET order == OrderBy(items, Indices(items), "window_start")
    IN [k \in Indices(order) |-> items[order[k]]]

\* the rows a transaction has written and not yet committed
NoWrites == [invoices |-> <<>>, lineItems |-> <<>>, marks |-> <<>>]

IdleTx == [phase |-> "idle", snaps |-> <<>>, builds |-> <<>>, writes |-> NoWrites]

\* lines 147-181: the writes of one invoice inside the transaction
writeInvoice(w, inv, invoiceID) ==
    [invoices |-> Append(w.invoices,
                    [id |-> invoiceID, customer_id |-> inv.customerID,
                     period_start |-> inv.periodStart, period_end |-> inv.periodEnd,
                     subtotal_cents |-> inv.subtotal, discount_cents |-> inv.discount,
                     total_cents |-> inv.total]),
     lineItems |-> w.lineItems \o
                    [k \in Indices(inv.items) |->
                        [invoice_id |-> invoiceID] @@ sortItems(inv.items)[k]],
     marks |-> w.marks \o
                    [k \in Indices(inv.snapshotIDs) |->
                        [invoice_id |-> invoiceID, id |-> inv.snapshotIDs[k]]]]

RECURSIVE applyMarks(_, _)
applyMarks(snaps, marks) ==
    IF marks = <<>> THEN snaps
    ELSE applyMarks(MarkUsageSnapshotInvoiced(snaps, Head(marks).invoice_id, Head(marks).id),
                    Tail(marks))

\* the committed tables after tx.Commit
Commit(store, w) ==
    [invoices |-> store.invoices \o w.invoices,
     lineItems |-> store.lineItems \o w.lineItems,
     snapshots |-> applyMarks(store.snapshots, w.marks)]

\* a rollback that leaves the writes in the tables
Rollback_keepsWrites(store, w) ==
    [invoices |-> store.invoices \o w.invoices,
     lineItems |-> store.lineItems \o w.lineItems,
     snapshots |-> applyMarks(store.snapshots, w.marks)]

\* the committed tables after the deferred tx.Rollback
Rollback(store, w) == store

Store == [invoices |-> invoices, lineItems |-> lineItems, snapshots |-> snapshots]

\* ---------------------------------------------------------------- prober: in-memory metrics
\* the targets the prober has loops for: two domains of service 1, one of
\* service 2
ProbedTargets == {<<1, "a">>, <<1, "b">>, <<2, "a">>}
Windows == {1, 2}

probeSample(t, ok) == [t |-> t, ok |-> ok]

\* a Go map as a function; m[k] = v and delete(m, k)
Put(f, k, v) == [x \in DOMAIN f \cup {k} |-> IF x = k THEN v ELSE f[x]]
Drop(f, K) == [x \in DOMAIN f \ K |-> f[x]]
Get(f, k) == IF k \in DOMAIN f THEN f[k] ELSE <<>>

\* the store with samples per service and target and a configured
\* emptyAvailability
NewInMemoryMetricsWithDefault(emptyAvailability) ==
    [build |-> "targets", emptyAvailability |-> emptyAvailability, samples |-> <<>>]

NewInMemoryMetrics == NewInMemoryMetricsWithDefault(Frac(0, 1))

\* the store of internal/monitor/inmemory_metrics.go: samples per service,
\* no emptyAvailability
NewInMemoryMetricsLegacy == [build |-> "legacy", samples |-> <<>>]

RecordProbe(m, serviceID, target, ok, t) ==
    LET byTarget == Get(m.samples, serviceID)
        old == Get(byTarget, target)
    IN [m EXCEPT !.samples =
           Put(m.samples, serviceID, Put(byTarget, target, Append(old, probeSample(t, ok))))]

RecordProbeLegacy(m, serviceID, ok, t) ==
    [m EXCEPT !.samples =
        Put(m.samples, serviceID, Append(Get(m.samples, serviceID), probeSample(t, ok)))]

\* the scan with After replaced by "not before"
firstAfter_inclusive(samples, cutoff) ==
    LET hits == {i \in Indices(samples) : samples[i].t >= cutoff}
    IN IF hits = {} THEN Len(samples) + 1
       ELSE CHOOSE i \in hits : \A j \in hits : i <= j

\* the scan of the samples for the first one after the cutoff: its index, or
\* len(samples) when there is none (indices from 1 here)
firstAfter(samples, cutoff) ==
    LET hits == {i \in Indices(samples) : samples[i].t > cutoff}
    IN IF hits = {} THEN Len(samples) + 1
       ELSE CHOOSE i \in hits : \A j \in hits : i <= j

\* samples[idx:]
tailAfter(samples, cutoff) == SubSeq(samples, firstAfter(samples, cutoff), Len(samples))

okCountOf(samples) == Cardinality({i \in Indices(samples) : samples[i].ok})

RECURSIVE totalOver(_, _)
totalOver(byTarget, S) ==
    IF S = {} THEN 0
    ELSE LET tg == CHOOSE x \in S : TRUE
         IN Len(byTarget[tg]) + totalOver(byTarget, S \ {tg})

RECURSIVE okOver(_, _)
okOver(byTarget, S) ==
    IF S = {} THEN 0
    ELSE LET tg == CHOOSE x \in S : TRUE
         IN okCountOf(byTarget[tg]) + okOver(byTarget, S \ {tg})

\* Availability that leaves the expired targets in the map
Availability_keepsExpired(m, serviceID, window, t) ==
    LET cutoff == t - window
        targets == Get(m.samples, serviceID)
    IN IF DOMAIN targets = {} THEN [value |-> m.emptyAvailability, metrics |-> m]
       ELSE LET tails == [tg \in DOMAIN targets |-> tailAfter(targets[tg], cutoff)]
                emptyTargets == {tg \in DOMAIN targets : tails[tg] = <<>>}
                kept == [tg \in DOMAIN targets |->
                            IF tg \in emptyTargets THEN targets[tg] ELSE tails[tg]]
                live == DOMAIN targets \ emptyTargets
                total == totalOver(tails, live)
                okCount == okOver(tails, live)
            IN IF total = 0
               THEN [value |-> m.emptyAvailability,
                     metrics |-> [m EXCEPT !.samples = Put(m.samples, serviceID, kept)]]
               ELSE [value |-> Frac(okCount, total),
                     metrics |-> [m EXCEPT !.samples = Put(m.samples, serviceID, kept)]]

\* InMemoryMetrics.Availability: the value returned and the store after the call
Availability(m, serviceID, window, t) ==
    LET cutoff == t - window
        targets == Get(m.samples, serviceID)
    IN IF DOMAIN targets = {} THEN [value |-> m.emptyAvailability, metrics |-> m]
       ELSE LET tails == [tg \in DOMAIN targets |-> tailAfter(targets[tg], cutoff)]
                emptyTargets == {tg \in DOMAIN targets : tails[tg] = <<>>}
                kept == Drop(tails, emptyTargets)
                total == totalOver(kept, DOMAIN kept)
                okCount == okOver(kept, DOMAIN kept)
            IN IF DOMAIN kept = {}
               THEN [value |-> m.emptyAvailability,
                     metrics |-> [m EXCEPT !.samples = Drop(m.samples, {serviceID})]]
               ELSE IF total = 0
               THEN [value |-> m.emptyAvailability,
                     metrics |-> [m EXCEPT !.samples = Put(m.samples, serviceID, kept)]]
               ELSE [value |-> Frac(okCount, total),
                     metrics |-> [m EXCEPT !.samples = Put(m.samples, serviceID, kept)]]

\* Availability of internal/monitor/inmemory_metrics.go
AvailabilityLegacy(m, serviceID, window, t) ==
    LET cutoff == t - window
        all == Get(m.samples, serviceID)
        kept == tailAfter(all, cutoff)
    IN IF all = <<>> THEN [value |-> Frac(1, 1), metrics |-> m]
       ELSE IF kept = <<>>
       THEN [value |-> Frac(1, 1),
             metrics |-> [m EXCEPT !.samples = Put(m.samples, serviceID, <<>>)]]
       ELSE [value |-> Frac(okCountOf(kept), Len(kept)),
             metrics |-> [m EXCEPT !.samples = Put(m.samples, serviceID, kept)]]

NoCall ==
    [n |-> 0, service |-> 0, window |-> 0, value |-> Frac(0, 1), evicted |-> {}]

\* the prober's store as the other components leave it
MetricsAtRest ==
    /\ metrics = NewInMemoryMetrics
    /\ lastCall = NoCall

\* ---------------------------------------------------------------- prober: scheduler
\* a string is the sequence of its characters
DigitChars == <<"0", "1", "2", "3", "4", "5", "6", "7", "8", "9">>

\* fmt.Sprintf("%d", n)
RECURSIVE Itoa(_)
Itoa(n) ==
    IF n < 10 THEN <<DigitChars[n + 1]>>
    ELSE Itoa(n \div 10) \o <<DigitChars[(n % 10) + 1]>>

HasPrefix(str, prefix) ==
    /\ Len(str) >= Len(prefix)
    /\ SubSeq(str, 1, Len(prefix)) = prefix

probeTarget(serviceID, domainID, metricsKey) ==
    [serviceID |-> serviceID, domainID |-> domainID, metricsKey |-> metricsKey]

\* probeTarget.key: "%d:%d:%s"
key(t) == Itoa(t.serviceID) \o <<":">> \o Itoa(t.domainID) \o <<":">> \o t.metricsKey

\* the prefix with the colon left out
servicePrefix_noColon(serviceID) == Itoa(serviceID)

\* the prefix preserveExistingLoops looks for: "%d:"
servicePrefix(serviceID) == Itoa(serviceID) \o <<":">>

\* the services rows and the service_domains rows there can be
ServiceRows ==
    <<[ID |-> 1, PrimaryCdn |-> <<>>, BackupCdn |-> <<>>],
      [ID |-> 12, PrimaryCdn |-> <<"p">>, BackupCdn |-> <<>>]>>
DomainRows ==
    {[ID |-> 10, service_id |-> 1, Name |-> <<"a">>],
     [ID |-> 11, service_id |-> 1, Name |-> <<"b">>],
     [ID |-> 12, service_id |-> 12, Name |-> <<"c">>]}

\* GetActiveServices and GetServiceDomains over the rows present
ActiveServiceRows(d) == SelectSeq(ServiceRows, LAMBDA svc : svc.ID \in d.services)
GetServiceDomains(d, serviceID) ==
    {dom \in DomainRows : dom.service_id = serviceID /\ dom.ID \in d.domains}

\* buildTarget: the metrics label of a target
metricsLabel(domainName, label) ==
    IF label = <<>> THEN domainName ELSE domainName \o <<"@">> \o label

\* strings.TrimSpace: the spaces at both ends are dropped
TrimSpace(str) ==
    LET inked == {i \in Indices(str) : str[i] # " "}
    IN IF inked = {} THEN <<>>
       ELSE SubSeq(str, CHOOSE i \in inked : \A j \in inked : i <= j,
                        CHOOSE i \in inked : \A j \in inked : j <= i)

\* a scheme is one element of a string
Schemes == {"http://", "https://"}

\* url.Parse of scheme://host: a space in the host is an error
urlParses(str) == " " \notin Range(str)

\* Scheduler.probePath
probePath(path) ==
    IF path = <<>> THEN <<"/">>
    ELSE IF HasPrefix(path, <<"/">>) THEN path
    ELSE <<"/">> \o path

\* the first index of str from which on the path starts, Len(str) + 1 when
\* there is none
pathAt(str) ==
    LET slashes == {i \in Indices(str) : str[i] = "/"}
    IN IF slashes = {} THEN Len(str) + 1 ELSE CHOOSE i \in slashes : \A j \in slashes : i <= j

\* buildProbeURL: "" (here <<>>) when the host is blank or does not parse,
\* else the URL of the host with the probe path as its path
buildProbeURL(host, path) ==
    LET trimmed == TrimSpace(host)
        full == IF trimmed # <<>> /\ trimmed[1] \in Schemes THEN trimmed
                ELSE <<"https://">> \o trimmed
    IN IF trimmed = <<>> THEN <<>>
       ELSE IF ~urlParses(full) THEN <<>>
       ELSE SubSeq(full, 1, pathAt(full) - 1) \o path

\* URL.Hostname: the host of scheme://host[:port]/path without the port
Hostname(urlStr) ==
    LET authority == SubSeq(urlStr, 2, pathAt(urlStr) - 1)
        colons == {i \in Indices(authority) : authority[i] = ":"}
    IN IF colons = {} THEN authority
       ELSE SubSeq(authority, 1, (CHOOSE i \in colons : \A j \in colons : j <= i) - 1)

\* the letters of the names there are, in lower case
LowerOf(c) ==
    CASE c = "A" -> "a"
      [] c = "B" -> "b"
      [] c = "P" -> "p"
      [] OTHER -> c

\* strings.EqualFold
EqualFold(a, b) ==
    /\ Len(a) = Len(b)
    /\ \A i \in Indices(a) : LowerOf(a[i]) = LowerOf(b[i])

\* the Host header set whenever the names differ as written
hostHeaderFor_exact(hostname, domainName) ==
    IF hostname # domainName THEN domainName ELSE <<>>

\* buildTarget lines 215-218: the Host header of a target
hostHeaderFor(hostname, domainName) ==
    IF ~EqualFold(hostname, domainName) THEN domainName ELSE <<>>

\* buildTarget: whether there is a target, and the target
buildTarget(serviceID, domainID, domainName, host, label, path) ==
    LET urlStr == buildProbeURL(host, probePath(path))
    IN [ok |-> urlStr # <<>>,
        target |-> [url |-> urlStr, hostHeader |-> hostHeaderFor(Hostname(urlStr), domainName)]
                      @@ probeTarget(serviceID, domainID, metricsLabel(domainName, label))]

\* targetsForService with the configured probe path: the direct target of
\* each domain, and one per CDN the service has, each when buildTarget has
\* one
targetsAt(svc, domains, path) ==
    LET built == UNION {{buildTarget(svc.ID, dom.ID, dom.Name, dom.Name, <<>>, path)}
                          \cup (IF svc.PrimaryCdn # <<>>
                                THEN {buildTarget(svc.ID, dom.ID, dom.Name, svc.PrimaryCdn,
                                         <<"p", "r", "i", "m", "a", "r", "y", ":">> \o svc.PrimaryCdn,
                                         path)}
                                ELSE {})
                          \cup (IF svc.BackupCdn # <<>>
                                THEN {buildTarget(svc.ID, dom.ID, dom.Name, svc.BackupCdn,
                                         <<"b", "a", "c", "k", "u", "p", ":">> \o svc.BackupCdn,
                                         path)}
                                ELSE {})
                        : dom \in domains}
    IN {b.target : b \in {x \in built : x.ok}}

\* targetsForService of a scheduler with the default probe path
targetsForService(svc, domains) == targetsAt(svc, domains, <<>>)

\* a probeLoop goroutine: its target, where it is, and whether the cancel
\* function of its context has been called
NewLoop(target) == [target |-> target, pc |-> "running", cancelled |-> FALSE]

\* ensureProbeLoop that starts a loop whether or not the key has one
ensureProbeLoop_restarts(st, target) ==
    [loops |-> Put(st.loops, key(target), Len(st.procs) + 1),
     procs |-> Append(st.procs, NewLoop(target))]

\* ensureProbeLoop on the loops map and the goroutines
ensureProbeLoop(st, target) ==
    IF key(target) \in DOMAIN st.loops THEN st
    ELSE [loops |-> Put(st.loops, key(target), Len(st.procs) + 1),
          procs |-> Append(st.procs, NewLoop(target))]

\* the loop over the targets of one service in Run
RECURSIVE ensureAll(_, _)
ensureAll(st, targets) ==
    IF targets = {} THEN st
    ELSE LET t == CHOOSE x \in targets : TRUE
         IN ensureAll(ensureProbeLoop(st, t), targets \ {t})

\* preserveExistingLoops: the active set after it
preserveExistingLoops(active, loops, serviceID) ==
    active \cup {id \in DOMAIN loops : HasPrefix(id, servicePrefix(serviceID))}

\* cancel() of the loops with the given keys
cancelLoops(ps, loops, ids) ==
    [i \in DOMAIN ps |->
        IF \E id \in ids : loops[id] = i THEN [ps[i] EXCEPT !.cancelled = TRUE] ELSE ps[i]]

\* stopMissingLoops: the loops map and the goroutines after it
stopMissingLoops(st, active) ==
    LET missing == DOMAIN st.loops \ active
    IN [loops |-> Drop(st.loops, missing), procs |-> cancelLoops(st.procs, st.loops, missing)]

\* cancelAllLoops
cancelAllLoops(st) ==
    [loops |-> <<>>, procs |-> cancelLoops(st.procs, st.loops, DOMAIN st.loops)]

NewScheduler == [pc |-> "top", loops |-> <<>>]
NoPass == [ran |-> FALSE, atStart |-> <<>>, fetched |-> {}, failed |-> {}]

\* the scheduler as the other components leave it
SchedAtRest ==
    /\ sched = NewScheduler
    /\ procs = <<>>
    /\ ctxDone = FALSE
    /\ schedDb = [services |-> {}, domains |-> {}]
    /\ passLog = NoPass
    /\ lateProbe = FALSE

\* ---------------------------------------------------------------- routing planner and dns-operator
Weights(primary, backup) == [Primary |-> primary, Backup |-> backup]

\* the query with a kind = 'failover' condition added
GetActiveStormsForService_failoverOnly(evs, serviceID) ==
    SelectSeq(evs, LAMBDA e : /\ e.service_id = serviceID
                              /\ ~e.ended_at.valid
                              /\ e.kind = "failover")

\* WHERE service_id = $1 AND ended_at IS NULL
GetActiveStormsForService(evs, serviceID) ==
    SelectSeq(evs, LAMBDA e : e.service_id = serviceID /\ ~e.ended_at.valid)

\* Planner.DesiredRouting
DesiredRouting(evs, serviceID) ==
    LET storms == GetActiveStormsForService(evs, serviceID)
    IN IF Len(storms) > 0 THEN Weights(0, 100) ELSE Weights(100, 0)

\* the domains of a service in the order the query returns them
domainsInOrder(domains) ==
    LET ids == SeqFromSet({dom.ID : dom \in domains})
    IN [i \in Indices(ids) |-> CHOOSE dom \in domains : dom.ID = ids[i]]

\* the loop over the domains with a break after the first
setWeightsCalls_firstOnly(domains, weights) ==
    [i \in Indices(SubSeq(domains, 1, 1)) |->
        [domain |-> domains[i].Name, primary |-> weights.Primary, backup |-> weights.Backup]]

\* the loop over the domains of a service: one SetWeights call each
setWeightsCalls(domains, weights) ==
    [i \in Indices(domains) |->
        [domain |-> domains[i].Name, primary |-> weights.Primary, backup |-> weights.Backup]]

NoDnsPass ==
    [readsOk |-> FALSE, services |-> {}, domains |-> <<>>, weights |-> <<>>,
     setErrors |-> <<>>]

\* main with providerReady left true when Route53 initialisation fails
selectProvider_alwaysReady(AWSRegion, initFails) ==
    [region |-> AWSRegion,
     name |-> IF AWSRegion # "" /\ ~initFails THEN "route53" ELSE "noop",
     providerReady |-> TRUE,
     ready |-> "unknown"]

\* main: the noop provider, replaced by the Route53 provider when a region is
\* configured and NewRoute53Provider succeeds
selectProvider(AWSRegion, initFails) ==
    [region |-> AWSRegion,
     name |-> IF AWSRegion # "" /\ ~initFails THEN "route53" ELSE "noop",
     providerReady |-> ~(AWSRegion # "" /\ initFails),
     ready |-> "unknown"]

\* the readiness function handed to observability.StartServer
readiness(dbErr, prov) ==
    IF dbErr THEN "db not ready"
    ELSE IF ~prov.providerReady THEN "dns provider not initialized"
    ELSE ""

\* the readiness function of the older main
readinessProviderInit(dbErr, prov) ==
    IF dbErr THEN "db not ready"
    ELSE IF prov.region # "" /\ prov.name # "route53"
    THEN "dns provider not initialized"
    ELSE ""

\* the dns-operator as the other components leave it
DnsAtRest ==
    /\ dnsOp = [pc |-> "startup", todo |-> <<>>, pending |-> <<>>]
    /\ dnsCalls = <<>>
    /\ dnsLog = NoDnsPass
    /\ dnsProv = selectProvider("", FALSE)

\* ---------------------------------------------------------------- Route53 provider
DefaultMaxAttempts == 3

\* the provider without the default for MaxAttempts
newRoute53Provider_noDefault(MaxAttempts) ==
    [maxAttempts |-> MaxAttempts, zoneCache |-> <<>>]

\* newRoute53Provider: MaxAttempts <= 0 becomes 3; the zone cache is empty
newRoute53Provider(MaxAttempts) ==
    [maxAttempts |-> IF MaxAttempts <= 0 THEN DefaultMaxAttempts ELSE MaxAttempts,
     zoneCache |-> <<>>]

\* strings.TrimSpace(domain) == ""
IsBlank(domain) == \A i \in Indices(domain) : domain[i] = " "

\* strings.TrimSuffix(domain, ".")
TrimDot(domain) ==
    IF domain # <<>> /\ domain[Len(domain)] = "."
    THEN SubSeq(domain, 1, Len(domain) - 1)
    ELSE domain

HasSuffix(str, suffix) ==
    /\ Len(str) >= Len(suffix)
    /\ SubSeq(str, Len(str) - Len(suffix) + 1, Len(str)) = suffix

\* strings.ToLower on the set identifiers there are
ToLower(str) ==
    CASE str = "Primary" -> "primary"
      [] str = "Backup" -> "backup"
      [] OTHER -> str

\* a pointer to an int64: nil, or a value
NilInt == [valid |-> FALSE, v |-> 0]
Int64(v) == [valid |-> TRUE, v |-> v]

\* route53types.ResourceRecordSet; a nil SetIdentifier is ""
ResourceRecordSet(name, type, setIdentifier, weight, ttl, resourceRecords) ==
    [Name |-> name, Type |-> type, SetIdentifier |-> setIdentifier, Weight |-> weight,
     TTL |-> ttl, ResourceRecords |-> resourceRecords]

\* what ListHostedZonesByName answers
HostedZones == <<[Name |-> <<".">>, Id |-> "/hostedzone/Z0"],
                 [Name |-> <<"a", ".">>, Id |-> "/hostedzone/Z123"]>>

\* strings.TrimPrefix(id, "/hostedzone/") on the zone ids there are
TrimZonePrefix(id) ==
    CASE id = "/hostedzone/Z123" -> "Z123"
      [] id = "/hostedzone/Z0" -> "Z0"
      [] OTHER -> id

\* lookupHostedZone after the cache and the API call: the zone with the
\* longest name that is a suffix of the domain, "" when there is none
bestZone(zones, domain) ==
    LET fits == {i \in Indices(zones) :
                    /\ TrimDot(zones[i].Name) # <<>>
                    /\ HasSuffix(domain, TrimDot(zones[i].Name))}
    IN IF fits = {} THEN ""
       ELSE LET longest == {i \in fits :
                              \A j \in fits : Len(zones[j].Name) <= Len(zones[i].Name)}
            IN TrimZonePrefix(zones[CHOOSE i \in longest : \A j \in longest : i <= j].Id)

\* lookupHostedZone: the zone id or the error, and the provider with its cache
lookupHostedZone(p, domain, fail) ==
    IF domain \in DOMAIN p.zoneCache
    THEN [err |-> "", id |-> p.zoneCache[domain], provider |-> p]
    ELSE IF fail = "zones"
    THEN [err |-> "list hosted zones", id |-> "", provider |-> p]
    ELSE IF bestZone(HostedZones, domain) = ""
    THEN [err |-> "no hosted zone", id |-> "", provider |-> p]
    ELSE [err |-> "", id |-> bestZone(HostedZones, domain),
          provider |-> [p EXCEPT !.zoneCache = Put(@, domain, bestZone(HostedZones, domain))]]

\* the record sets of the zone that fetchWeightedRecords takes for the one
\* with the given set identifier
weightedRecords(records, domain, setIdentifier) ==
    {i \in Indices(records) :
        /\ TrimDot(records[i].Name) = domain
        /\ records[i].SetIdentifier # ""
        /\ records[i].Weight.valid
        /\ ToLower(records[i].SetIdentifier) = setIdentifier}

\* fetchWeightedRecords: the last primary and the last backup record set of
\* the domain in the listing
fetchWeightedRecords(records, domain, fail) ==
    LET prim == weightedRecords(records, domain, "primary")
        back == weightedRecords(records, domain, "backup")
        last(S) == CHOOSE i \in S : \A j \in S : j <= i
    IN IF fail = "records" THEN [err |-> "list record sets", primary |-> 0, backup |-> 0]
       ELSE IF prim = {} \/ back = {}
       THEN [err |-> "weighted records not found", primary |-> 0, backup |-> 0]
       ELSE [err |-> "", primary |-> last(prim), backup |-> last(back)]

\* the update that adds the requested weight to the weight there is
withWeight_adds(rr, weight) == [rr EXCEPT !.Weight = Int64(@.v + weight)]

\* cloneRecordSet and the assignment of Weight
withWeight(rr, weight) == [rr EXCEPT !.Weight = Int64(weight)]

\* the changes with the backup record first
changesOf_backupFirst(primaryUpdate, backupUpdate) ==
    <<[Action |-> "UPSERT", ResourceRecordSet |-> backupUpdate],
      [Action |-> "UPSERT", ResourceRecordSet |-> primaryUpdate]>>

\* the Changes of the batch
changesOf(primaryUpdate, backupUpdate) ==
    <<[Action |-> "UPSERT", ResourceRecordSet |-> primaryUpdate],
      [Action |-> "UPSERT", ResourceRecordSet |-> backupUpdate]>>

NoBatch == [HostedZoneId |-> "", Changes |-> <<>>]

\* Route53 applying one UPSERT: the record set with the same name, type and
\* set identifier is replaced, or the record set is added
upsert(records, rr) ==
    LET same == {i \in Indices(records) :
                    /\ records[i].Name = rr.Name
                    /\ records[i].Type = rr.Type
                    /\ records[i].SetIdentifier = rr.SetIdentifier}
    IN IF same = {} THEN Append(records, rr)
       ELSE [i \in Indices(records) |-> IF i \in same THEN rr ELSE records[i]]

\* Route53 applying a change batch
RECURSIVE applyChanges(_, _)
applyChanges(records, changes) ==
    IF changes = <<>> THEN records
    ELSE applyChanges(upsert(records, Head(changes).ResourceRecordSet), Tail(changes))

\* setWeightsOnce: its error ("" for nil), the provider and the zone after
\* it, and the batch it submitted; fail is the API call that fails
setWeightsOnce(p, records, domain, weights, fail) ==
    LET zone == lookupHostedZone(p, domain, fail)
        found == fetchWeightedRecords(records, domain, fail)
        batch == [HostedZoneId |-> zone.id,
                  Changes |-> changesOf(withWeight(records[found.primary], weights.Primary),
                                        withWeight(records[found.backup], weights.Backup))]
    IN IF zone.err # ""
       THEN [err |-> zone.err, provider |-> zone.provider, records |-> records,
             batch |-> NoBatch]
       ELSE IF found.err # ""
       THEN [err |-> found.err, provider |-> zone.provider, records |-> records,
             batch |-> NoBatch]
       ELSE IF fail = "change"
       THEN [err |-> "change record sets", provider |-> zone.provider,
             records |-> records, batch |-> batch]
       ELSE [err |-> "", provider |-> zone.provider,
             records |-> applyChanges(records, batch.Changes), batch |-> batch]

\* the attempt numbered attempt is made
mayAttempt(attempt, maxAttempts) == attempt <= maxAttempts

\* lastErr = err
nextLastErr(last, err) == err

NoSetWeights ==
    [pc |-> "idle", domain |-> <<>>, weights |-> Weights(0, 0), attempt |-> 0,
     outcomes |-> <<>>, ret |-> "none", lastErr |-> "", errs |-> <<>>, batches |-> <<>>]

\* SetWeights up to its loop: a blank domain is refused, otherwise the
\* domain is normalised and the first attempt is next
startSetWeights(st, domain, weights) ==
    IF IsBlank(domain)
    THEN [st EXCEPT !.call = [NoSetWeights EXCEPT !.pc = "returned", !.domain = domain,
                                                  !.weights = weights, !.ret = "err",
                                                  !.lastErr = "domain is required"]]
    ELSE [st EXCEPT !.call = [NoSetWeights EXCEPT !.pc = "loop",
                                                  !.domain = TrimDot(domain),
                                                  !.weights = weights, !.attempt = 1]]

\* one pass through the loop of SetWeights: the loop is over and the last
\* error is returned, or setWeightsOnce succeeds and nil is returned, or it
\* fails and the next attempt is next; fail is the API call that fails
attemptSetWeights(st, fail) ==
    LET once == setWeightsOnce(st.provider, st.records, st.call.domain, st.call.weights,
                               fail)
        submitted == IF once.batch = NoBatch THEN st.call.batches
                     ELSE Append(st.call.batches, once.batch)
    IN IF ~mayAttempt(st.call.attempt, st.provider.maxAttempts)
       THEN [st EXCEPT !.call.pc = "returned", !.call.ret = "err"]
       ELSE IF once.err # ""
       THEN [st EXCEPT !.provider = once.provider,
                       !.call.outcomes = Append(@, "err"),
                       !.call.errs = Append(@, once.err),
                       !.call.lastErr = nextLastErr(@, once.err),
                       !.call.batches = submitted,
                       !.call.attempt = @ + 1]
       ELSE [st EXCEPT !.provider = once.provider, !.records = once.records,
                       !.call.outcomes = Append(@, "nil"),
                       !.call.batches = submitted,
                       !.call.pc = "returned", !.call.ret = "nil"]

\* which API call fails in an attempt
ApiFailures == {"none", "zones", "records", "change"}

\* the record sets of the zone: the weighted pair of a, a record set of a
\* that is not weighted, and the weighted pair of another name
ZoneRecords ==
    <<ResourceRecordSet(<<"a", ".">>, "TXT", "", NilInt, 300, <<"v=1">>),
      ResourceRecordSet(<<"a", ".">>, "CNAME", "Primary", Int64(10), 60, <<"p.net.">>),
      ResourceRecordSet(<<"a", ".">>, "CNAME", "backup", Int64(5), 60, <<"b.net.">>),
      ResourceRecordSet(<<"x", "a", ".">>, "CNAME", "primary", Int64(1), 60, <<"p.net.">>),
      ResourceRecordSet(<<"x", "a", ".">>, "CNAME", "backup", Int64(1), 60, <<"b.net.">>)>>

\* what is kept of the call before the current one
previously(call) ==
    [domain |-> call.domain, weights |-> call.weights, ret |-> call.ret,
     attempts |-> Len(call.outcomes), batches |-> Len(call.batches)]

NewRoute53(MaxAttempts) ==
    [provider |-> newRoute53Provider(MaxAttempts), config |-> MaxAttempts,
     call |-> NoSetWeights, prev |-> previously(NoSetWeights), records |-> ZoneRecords]

Route53AtRest == r53 = NewRoute53(0)

\* ---------------------------------------------------------------- usage ingestor
\* cdn.Usage: the bytes a host served in a window
Usage(host, windowStart, windowEnd, bytes) ==
    [Host |-> host, WindowStart |-> windowStart, WindowEnd |-> windowEnd, Bytes |-> bytes]

\* service_domains rows; service 3 is not active
AllServiceDomains ==
    <<[Name |-> "a", ServiceID |-> 1], [Name |-> "b", ServiceID |-> 1],
      [Name |-> "c", ServiceID |-> 2], [Name |-> "d", ServiceID |-> 3]>>

\* loadDomains: the host to service map of the domains of the services given
loadDomains(services, domains) ==
    LET kept == {i \in Indices(domains) : domains[i].ServiceID \in services}
    IN [h \in {domains[i].Name : i \in kept} |->
           LET last == CHOOSE i \in kept :
                          /\ domains[i].Name = h
                          /\ \A j \in kept : domains[j].Name = h => j <= i
           IN domains[last].ServiceID]

\* time.Truncate
Truncate(t, d) == t - (t % d)

\* the sample is neither of an unknown host nor misaligned
accepted(u, hostToService, window) ==
    /\ u.Host \in DOMAIN hostToService
    /\ Truncate(u.WindowStart, window) = u.WindowStart
    /\ u.WindowEnd = u.WindowStart + window

\* the aggregate that keeps the bytes of the last sample only
addUsage_lastOnly(aggregates, u, hostToService) ==
    LET k == <<hostToService[u.Host], u.WindowStart>>
    IN Put(aggregates, k,
           [ServiceID |-> k[1], WindowStart |-> u.WindowStart, WindowEnd |-> u.WindowEnd,
            PrimaryBytes |-> u.Bytes, BackupBytes |-> 0])

\* one accepted sample added to the aggregates: its bytes are added to the
\* PrimaryBytes of the aggregate of its service and window start
addUsage(aggregates, u, hostToService) ==
    LET k == <<hostToService[u.Host], u.WindowStart>>
        agg == IF k \in DOMAIN aggregates THEN aggregates[k]
               ELSE [ServiceID |-> 0, WindowStart |-> 0, WindowEnd |-> 0,
                     PrimaryBytes |-> 0, BackupBytes |-> 0]
    IN Put(aggregates, k,
           [agg EXCEPT !.ServiceID = k[1], !.WindowStart = u.WindowStart,
                       !.WindowEnd = u.WindowEnd, !.PrimaryBytes = @ + u.Bytes])

\* the loop over the usages from the one numbered i on
RECURSIVE aggregateFrom(_, _, _, _, _)
aggregateFrom(usages, i, aggregates, hostToService, window) ==
    IF i > Len(usages) THEN aggregates
    ELSE aggregateFrom(usages, i + 1,
                       IF accepted(usages[i], hostToService, window)
                       THEN addUsage(aggregates, usages[i], hostToService)
                       ELSE aggregates,
                       hostToService, window)

\* an upsert that clears invoice_id
UpsertUsageSnapshot_clearsInvoice(snaps, params) ==
    LET same == {i \in Indices(snaps) :
                    /\ snaps[i].service_id = params.ServiceID
                    /\ snaps[i].window_start = params.WindowStart
                    /\ snaps[i].window_end = params.WindowEnd}
    IN IF same = {}
       THEN Append(snaps, [id |-> Len(snaps) + 1, service_id |-> params.ServiceID,
                           window_start |-> params.WindowStart,
                           window_end |-> params.WindowEnd,
                           primary_bytes |-> params.PrimaryBytes,
                           backup_bytes |-> params.BackupBytes,
                           invoice_id |-> [valid |-> FALSE, int64 |-> 0]])
       ELSE [i \in Indices(snaps) |->
                IF i \in same
                THEN [snaps[i] EXCEPT !.primary_bytes = params.PrimaryBytes,
                                      !.backup_bytes = params.BackupBytes,
                                      !.invoice_id = [valid |-> FALSE, int64 |-> 0]]
                ELSE snaps[i]]

\* UpsertUsageSnapshot: the row of the service and window is inserted, or its
\* bytes are replaced
UpsertUsageSnapshot(snaps, params) ==
    LET same == {i \in Indices(snaps) :
                    /\ snaps[i].service_id = params.ServiceID
                    /\ snaps[i].window_start = params.WindowStart
                    /\ snaps[i].window_end = params.WindowEnd}
    IN IF same = {}
       THEN Append(snaps, [id |-> Len(snaps) + 1, service_id |-> params.ServiceID,
                           window_start |-> params.WindowStart,
                           window_end |-> params.WindowEnd,
                           primary_bytes |-> params.PrimaryBytes,
                           backup_bytes |-> params.BackupBytes,
                           invoice_id |-> [valid |-> FALSE, int64 |-> 0]])
       ELSE [i \in Indices(snaps) |->
                IF i \in same
                THEN [snaps[i] EXCEPT !.primary_bytes = params.PrimaryBytes,
                                      !.backup_bytes = params.BackupBytes]
                ELSE snaps[i]]

\* the row an upsert has to wait for: the row of the key is held FOR UPDATE
upsertBlocked(snaps, txs, params) ==
    \E i \in LockedBy(txs, Workers) :
       /\ snaps[i].service_id = params.ServiceID
       /\ snaps[i].window_start = params.WindowStart
       /\ snaps[i].window_end = params.WindowEnd

NoIngest == [pc |-> "idle", runs |-> 0, usages |-> <<>>, pending |-> <<>>, ret |-> "none"]

UsageAtRest == ing = NoIngest

\* ---------------------------------------------------------------- migrations
\* the bytes of the file names in their order
ByteOrder == <<".", "0", "1", "2", "3", "l", "q", "s", "t", "x">>
Byte(c) == CHOOSE i \in Indices(ByteOrder) : ByteOrder[i] = c

\* a < b for strings
StringLess(a, b) ==
    \E i \in 1..(Len(b)) :
       /\ \A j \in 1..(i - 1) : j <= Len(a) /\ a[j] = b[j]
       /\ \/ i > Len(a)
          \/ i <= Len(a) /\ Byte(a[i]) < Byte(b[i])

\* sort.Strings
RECURSIVE SortStrings(_)
SortStrings(S) ==
    IF S = {} THEN <<>>
    ELSE LET least == CHOOSE a \in S : \A b \in S \ {a} : StringLess(a, b)
         IN <<least>> \o SortStrings(S \ {least})

DirEntry(name, isDir) == [Name |-> name, IsDir |-> isDir]

\* migrations.Files
EmbeddedFiles ==
    { DirEntry(<<"2", ".", "s", "q", "l">>, FALSE),
      DirEntry(<<"1", "0", ".", "s", "q", "l">>, FALSE),
      DirEntry(<<"1", ".", "s", "q", "l">>, FALSE),
      DirEntry(<<"0", ".", "s", "q", "l">>, TRUE),
      DirEntry(<<"3", ".", "t", "x", "t">>, FALSE) }

\* the entries migrationVersions keeps: files whose name ends in .sql
sqlNames(entries) ==
    {e.Name : e \in {d \in entries : ~d.IsDir /\ HasSuffix(d.Name, <<".", "s", "q", "l">>)}}

\* the shorter names first
migrationVersions_shortFirst(entries) ==
    SortStrings({n \in sqlNames(entries) : Len(n) <= 5})
        \o SortStrings({n \in sqlNames(entries) : Len(n) > 5})

\* migrationVersions: the names of the .sql files, sorted
migrationVersions(entries) == SortStrings(sqlNames(entries))

\* where applyMigration may fail
MigrationFailures == {"none", "begin", "body", "record", "commit"}

\* applyMigration: the body and the INSERT of the version in one
\* transaction; the INSERT fails on a version the table has; any failure
\* rolls back. store has the bodies that ran (log) and the table (schema)
applyMigration(store, version, p, failAt) ==
    LET begun == failAt # "begin"
        body == begun /\ failAt # "body"
        recorded == body /\ failAt # "record" /\ version \notin store.schema
        committed == recorded /\ failAt # "commit"
    IN [err |-> ~committed,
        log |-> IF committed THEN Append(store.log, [version |-> version, proc |-> p])
                ELSE store.log,
        schema |-> IF committed THEN store.schema \cup {version} ELSE store.schema]

Procs == {1, 2}

\* the connections the pool of a binary may run a statement on
Sessions(p) == {[proc |-> p, conn |-> 1], [proc |-> p, conn |-> 2]}
NoSession == [proc |-> 0, conn |-> 0]

\* the session a statement on the *sql.DB runs on: one of the pool
poolConn(p) == Sessions(p)

\* pg_advisory_lock on session s: granted when no other session holds it
lockGranted(holder, s) == holder = NoSession \/ holder = s

\* pg_advisory_unlock on session s: the lock is released when s holds it,
\* otherwise the call answers false and the lock stays
advisoryUnlock(holder, s) == IF holder = s THEN NoSession ELSE holder

\* conn.Close: the sessions of the pool end, and with them their locks
closePool(holder, p) == IF holder \in Sessions(p) THEN NoSession ELSE holder

NoStart ==
    [pc |-> "down", starts |-> 0, applied |-> {}, next |-> 1, err |-> FALSE,
     ran |-> <<>>]

NoMigrations ==
    [lock |-> NoSession, schema |-> {}, log |-> <<>>, proc |-> [p \in Procs |-> NoStart]]

MigrationsAtRest == mig = NoMigrations

\* ---------------------------------------------------------------- control plane
\* a row of services
ServiceRow(id, customer_id, name, deleted) ==
    [ID |-> id, CustomerID |-> customer_id, Name |-> name, Deleted |-> deleted]

\* GetActiveServicesForCustomer: the rows of the customer not deleted, by id
GetActiveServicesForCustomer(services, customerID) ==
    SelectSeq(services, LAMBDA row : ~row.Deleted /\ row.CustomerID = customerID)

\* GetServiceForCustomer: the row of that id of the customer, not deleted
GetServiceForCustomer(services, id, customerID) ==
    SelectSeq(services, LAMBDA row : row.ID = id /\ row.CustomerID = customerID /\ ~row.Deleted)

\* the WHERE of UpdateService: id and customer_id
updateMatches(row, id, customerID) == row.ID = id /\ row.CustomerID = customerID

\* UpdateService: the rows after the update, and RETURNING *
UpdateService(services, id, customerID, name) ==
    LET after == [i \in Indices(services) |->
                     IF updateMatches(services[i], id, customerID)
                     THEN [services[i] EXCEPT !.Name = name]
                     ELSE services[i]]
    IN [services |-> after,
        rows |-> SelectSeq(after, LAMBDA row : updateMatches(row, id, customerID))]

\* SoftDeleteService: deleted_at is set on the row of the customer that is
\* not deleted yet
SoftDeleteService(services, id, customerID) ==
    LET hit(row) == row.ID = id /\ row.CustomerID = customerID /\ ~row.Deleted
    IN [services |-> [i \in Indices(services) |->
                         IF hit(services[i]) THEN [services[i] EXCEPT !.Deleted = TRUE]
                         ELSE services[i]],
        rows |-> SelectSeq(services, hit)]

\* updateServiceRequest.Validate and Apply on the name: a blank name is
\* refused, another one replaces the name read
IsBlankName(name) == name = ""

Customers == {1, 2}
Requests == {1, 2}

NoRequest ==
    [pc |-> "idle", handler |-> "none", customerID |-> 0, serviceID |-> 0,
     svc |-> <<>>, name |-> "", status |-> 0, body |-> <<>>]

\* a request answered: the status and the services of the body
answered(req, status, body) == [req EXCEPT !.pc = "done", !.status = status, !.body = body]

NoControl == [services |-> <<>>, req |-> [r \in Requests |-> NoRequest], served |-> 0]

ControlAtRest == ctl = NoControl

\* no call of coverageRatio yet
NoCoverage ==
    [called |-> FALSE, windowStart |-> 0, windowEnd |-> 0, table |-> <<>>, storms |-> <<>>,
     ratio |-> Frac(0, 1)]

CoverageAtRest == cov = NoCoverage

\* ---------------------------------------------------------------- Route53 provider: paging
\* ListResourceRecordSets: the record sets from start on, at most maxItems
\* of them, whether more follow, and where they start
ListResourceRecordSets(records, start, maxItems) ==
    LET upto == Min(Len(records), start + maxItems - 1)
    IN [ResourceRecordSets |-> SubSeq(records, start, upto),
        IsTruncated |-> upto < Len(records),
        Next |-> upto + 1]

RECURSIVE scanPage(_, _, _)
\* lines 291-308: the loop over the record sets of one page; found is the
\* primary and the backup record set so far (<<>> for nil)
scanPage(page, domain, found) ==
    IF page = <<>> THEN found
    ELSE LET rr == Head(page)
             id == ToLower(rr.SetIdentifier)
         IN scanPage(Tail(page), domain,
                     IF TrimDot(rr.Name) # domain THEN found
                     ELSE IF rr.SetIdentifier = "" \/ ~rr.Weight.valid THEN found
                     ELSE IF id = "primary" THEN [found EXCEPT !.primary = <<rr>>]
                     ELSE IF id = "backup" THEN [found EXCEPT !.backup = <<rr>>]
                     ELSE found)

\* the next request asks for the same record sets again
nextStart_same(start, resp) == start

\* lines 318-320: the next request starts where the response says
nextStart(start, resp) == resp.Next

NoFetch ==
    [pc |-> "idle", records |-> <<>>, domain |-> <<>>, start |-> 1,
     found |-> [primary |-> <<>>, backup |-> <<>>], err |-> "", batch |-> NoBatch]

FetchAtRest == fetch = NoFetch

NoTargets == [called |-> FALSE, svc |-> <<>>, domains |-> {}, path |-> <<>>, targets |-> {}]

TargetsAtRest == tgt = NoTargets

Engines == {1, 2}

NoEvaluation == [pc |-> "idle", pol |-> 0, t |-> 0, active |-> ErrNoRows, runs |-> 0]

EnginesAtRest == eng = [e \in Engines |-> NoEvaluation]

NoLoop == [pc |-> "idle", cancelled |-> FALSE, ok |-> FALSE]

LoopAtRest == loop = NoLoop

TailAtRest == EnginesAtRest /\ LoopAtRest

OthersAtRest ==
    /\ UsageAtRest
    /\ MigrationsAtRest
    /\ ControlAtRest
    /\ CoverageAtRest
    /\ FetchAtRest
    /\ TargetsAtRest
    /\ TailAtRest

\* ---------------------------------------------------------------- storm engine: ticks
Policy(s, k, th, w, cd, mc) ==
    [service_id |-> s, kind |-> k, threshold_avail |-> th, window_seconds |-> w,
     cooldown_seconds |-> cd, max_coverage_factor |-> mc]

\* storm_policies as the control plane can have stored them: no constraint
\* ties a kind to one policy of a service
PolicyConfigs ==
    { << Policy(1, "failover", 90, 60, 2, 3),
         Policy(1, "failover", 50, 60, 0, 2),
         Policy(2, "latency", 90, 60, 1, 3) >>,
      << Policy(1, "failover", 90, 60, 1, 3),
         Policy(1, "latency", 50, 60, 0, 2) >> }

Init ==
    /\ now = 0
    /\ policies \in PolicyConfigs
    /\ events = <<>>
    /\ tick = <<>>
    /\ avail \in Avails
    /\ lastErr = "none"
    /\ cfg = NewEngine(DefaultConfig)
    /\ snapshots = <<>>
    /\ invoices = <<>>
    /\ lineItems = <<>>
    /\ invoiceSeq = 0
    /\ tx = [w \in Workers |-> IdleTx]
    /\ result = [w \in Workers |-> "none"]
    /\ MetricsAtRest
    /\ SchedAtRest
    /\ DnsAtRest
    /\ Route53AtRest
    /\ OthersAtRest

\* time passes
Advance ==
    /\ now < MaxTime
    /\ now' = now + 1
    /\ UNCHANGED <<stormVars, billingVars, extVars>>

\* probes change what MetricsView.Availability returns
Probe ==
    /\ \E a \in Avails \ {avail} : avail' = a
    /\ UNCHANGED <<now, policies, events, tick, lastErr, billingVars, extVars>>

\* what Engine.Tick has still to do: read the policies of a service (pol = 0)
\* or evaluate policy pol of a service
ReadItem(s) == [svc |-> s, pol |-> 0]
EvalItem(s, i) == [svc |-> s, pol |-> i]

\* what Tick does when GetStormPoliciesForService returns an error: the
\* engine of internal/storm/engine.go logs and goes on to the next service
\* ("continue"), the engine of internal/db/client.go line 204 returns the
\* error ("return")
OnReadError == {"continue", "return"}

\* Engine.Tick up to its loop: the active services, each still to be read
TickStart ==
    /\ tick = <<>>
    /\ tick' = [k \in Indices(GetActiveServices) |-> ReadItem(GetActiveServices[k])]
    /\ UNCHANGED <<now, policies, events, avail, lastErr, billingVars, extVars>>

\* the tick after a failed policy read
afterReadError(rest, onErr) == IF onErr = "return" THEN <<>> ELSE rest

\* Engine.Tick, the loop body for one service up to the inner loop: the
\* policies of the service are read
ReadPolicies ==
    /\ tick # <<>>
    /\ Head(tick).pol = 0
    /\ LET s == Head(tick).svc
           ids == GetStormPoliciesForService(policies, s)
       IN \/ tick' = [k \in Indices(ids) |-> EvalItem(s, ids[k])] \o Tail(tick)
          \/ \E onErr \in OnReadError : tick' = afterReadError(Tail(tick), onErr)
    /\ UNCHANGED <<now, policies, events, avail, lastErr, billingVars, extVars>>

\* one evaluatePolicy call of the running tick; fail names the statement that
\* returns an error, and lastErr is what the call returns
EvaluatePolicy ==
    /\ tick # <<>>
    /\ Head(tick).pol > 0
    /\ \E fail \in StormFailures :
          LET p == policies[Head(tick).pol]
              ops == evaluatePolicy(events, p.service_id, p, avail, now, fail)
              evs == ApplyStormWrites(events, ops, now, fail)
          IN /\ Len(evs) <= MaxEvents
             /\ events' = evs
             /\ lastErr' = returnedError(events, p.service_id, p, avail, now, fail)
    /\ tick' = Tail(tick)
    /\ UNCHANGED <<now, policies, avail, billingVars, extVars>>

Next == Advance \/ Probe \/ TickStart \/ ReadPolicies \/ EvaluatePolicy

Spec == Init /\ [][Next]_vars

\* ---------------------------------------------------------------- billing workers
StormEvent(s, k, st, en) ==
    [service_id |-> s, kind |-> k, started_at |-> st, ended_at |-> en]

WithIds(rows) == [i \in Indices(rows) |-> [id |-> i] @@ rows[i]]

\* storm_events as storm engines have left them: a storm over the second half
\* of the first window; overlapping storms of two kinds, one still open
EventConfigs ==
    { WithIds(<< StormEvent(1, "failover", 1, ValidTime(2)) >>),
      WithIds(<< StormEvent(1, "failover", 0, ValidTime(3)),
                 StormEvent(1, "latency", 1, NullTime),
                 StormEvent(2, "latency", 3, ValidTime(3)) >>) }

GiB == 1073741824

UsageSnapshot(s, ws, pb, bb) ==
    [service_id |-> s, window_start |-> ws, window_end |-> ws + UsageWindow,
     primary_bytes |-> pb, backup_bytes |-> bb,
     invoice_id |-> [valid |-> FALSE, int64 |-> 0]]

\* usage_snapshots as the ingestor has left them: aligned windows, one row per
\* (service_id, window_start, window_end)
SnapshotConfigs ==
    { WithIds(<< UsageSnapshot(1, 0, GiB, GiB),
                 UsageSnapshot(1, UsageWindow, 0, GiB),
                 UsageSnapshot(2, UsageWindow, GiB \div 8, GiB \div 2) >>),
      WithIds(<< UsageSnapshot(1, 0, GiB, GiB) >>) }

\* BILLING_DISCOUNT_RATE as set in the environment, in halves
RawDiscountRates == {-1, 1, 4}

BillingInit ==
    /\ now = UsageWindow
    /\ policies \in PolicyConfigs
    /\ events \in EventConfigs
    /\ tick = <<>>
    /\ avail = 99
    /\ lastErr = "none"
    /\ cfg \in {NewEngine([DefaultConfig EXCEPT !.DiscountRate = r]) : r \in RawDiscountRates}
    /\ snapshots \in SnapshotConfigs
    /\ invoices = <<>>
    /\ lineItems = <<>>
    /\ invoiceSeq = 0
    /\ tx = [w \in Workers |-> IdleTx]
    /\ result = [w \in Workers |-> "none"]
    /\ MetricsAtRest
    /\ SchedAtRest
    /\ DnsAtRest
    /\ Route53AtRest
    /\ OthersAtRest

BillingAdvance ==
    /\ now < MaxBillingTime
    /\ now' = now + 1
    /\ UNCHANGED <<stormVars, billingVars, extVars>>

\* RunOnce up to line 78: begin and lock; no snapshot ends the run
BeginRun(w) ==
    /\ tx[w].phase = "idle"
    /\ LET ids == LockUnbilledUsageSnapshots(snapshots, tx, w, now, now - cfg.Period)
       IN IF ids = <<>>
          THEN /\ result' = [result EXCEPT ![w] = "empty"]
               /\ tx' = tx
          ELSE /\ result' = [result EXCEPT ![w] = "running"]
               /\ tx' = [tx EXCEPT ![w] = [IdleTx EXCEPT !.phase = "locked", !.snaps = ids]]
    /\ UNCHANGED <<now, stormVars, extVars, cfg, snapshots, invoices, lineItems, invoiceSeq>>

\* RunOnce lines 80-139: the invoices of the locked snapshots are built
BuildRun(w) ==
    /\ tx[w].phase = "locked"
    /\ tx' = [tx EXCEPT ![w].phase = "built",
                        ![w].builds = buildInvoices(cfg, events, policies, snapshots,
                                                    tx[w].snaps, <<>>)]
    /\ UNCHANGED <<now, stormVars, extVars, cfg, snapshots, invoices, lineItems, invoiceSeq, result>>

\* RunOnce lines 143-184, one turn of the loop over the map of invoices, whose
\* order is not fixed
WriteInvoice(w) ==
    /\ tx[w].phase \in {"built", "writing"}
    /\ invoiceSeq < MaxInvoiceSeq
    /\ \E c \in DOMAIN tx[w].builds :
          /\ invoiceSeq' = invoiceSeq + 1
          /\ tx' = [tx EXCEPT
                ![w].phase = "writing",
                ![w].writes = writeInvoice(tx[w].writes, tx[w].builds[c], invoiceSeq + 1),
                ![w].builds = [k \in DOMAIN tx[w].builds \ {c} |-> tx[w].builds[k]]]
    /\ UNCHANGED <<now, stormVars, extVars, cfg, snapshots, invoices, lineItems, result>>

\* RunOnce lines 186-194
CommitRun(w) ==
    /\ tx[w].phase = "writing"
    /\ DOMAIN tx[w].builds = {}
    /\ LET after == Commit(Store, tx[w].writes)
       IN /\ invoices' = after.invoices
          /\ lineItems' = after.lineItems
          /\ snapshots' = after.snapshots
    /\ tx' = [tx EXCEPT ![w] = IdleTx]
    /\ result' = [result EXCEPT ![w] = "ok"]
    /\ UNCHANGED <<now, stormVars, extVars, cfg, invoiceSeq>>

\* the next statement of the run returns an error (begin or lock when idle;
\* storm or coverage lookup when locked; an insert, a flag or the commit
\* after that): RunOnce returns it and the deferred Rollback runs
FailRun(w) ==
    /\ result[w] # "error" \/ tx[w].phase # "idle"
    /\ LET after == Rollback(Store, tx[w].writes)
       IN /\ invoices' = after.invoices
          /\ lineItems' = after.lineItems
          /\ snapshots' = after.snapshots
    /\ tx' = [tx EXCEPT ![w] = IdleTx]
    /\ result' = [result EXCEPT ![w] = "error"]
    /\ UNCHANGED <<now, stormVars, extVars, cfg, invoiceSeq>>

BillingNext ==
    \/ BillingAdvance
    \/ \E w \in Workers : BeginRun(w)
    \/ \E w \in Workers : BuildRun(w)
    \/ \E w \in Workers : WriteInvoice(w)
    \/ \E w \in Workers : CommitRun(w)
    \/ \E w \in Workers : FailRun(w)

BillingSpec == BillingInit /\ [][BillingNext]_vars

\* ---------------------------------------------------------------- billing: one worker and the ingestor
\* BILLING_PERIOD as set in the environment: one hour, or the default
Periods == {UsageWindow, BillingPeriod}

LateInit ==
    /\ now = UsageWindow
    /\ policies \in {p \in PolicyConfigs : Len(p) = 3}
    /\ events = <<>>
    /\ tick = <<>>
    /\ avail = 99
    /\ lastErr = "none"
    /\ cfg \in {NewEngine([DefaultConfig EXCEPT !.Period = p]) : p \in Periods}
    /\ snapshots = <<>>
    /\ invoices = <<>>
    /\ lineItems = <<>>
    /\ invoiceSeq = 0
    /\ tx = [w \in Workers |-> IdleTx]
    /\ result = [w \in Workers |-> "none"]
    /\ MetricsAtRest
    /\ SchedAtRest
    /\ DnsAtRest
    /\ Route53AtRest
    /\ OthersAtRest

\* the window starts a run of the usage ingestor at time t asks the provider
\* for: the aligned windows from alignedNow - lookback up to alignedNow
lookbackWindows(t) ==
    LET alignedNow == Truncate(t, UsageWindow)
    IN {ws \in 0..alignedNow :
           /\ Truncate(ws, UsageWindow) = ws
           /\ ws >= alignedNow - UsageLookback
           /\ ws + UsageWindow <= alignedNow}

\* a run of the usage ingestor in which the provider returns the usage of
\* one window of service 1 and the upsert succeeds
IngestorRun ==
    /\ Len(snapshots) < MaxLateSnapshots
    /\ \E ws \in lookbackWindows(now) :
          LET params == [ServiceID |-> 1, WindowStart |-> ws, WindowEnd |-> ws + UsageWindow,
                         PrimaryBytes |-> GiB, BackupBytes |-> 0]
          IN /\ ~upsertBlocked(snapshots, tx, params)
             /\ snapshots' = UpsertUsageSnapshot(snapshots, params)
    /\ UNCHANGED <<now, stormVars, extVars, cfg, invoices, lineItems, invoiceSeq, tx, result>>

\* the ticker of the billing worker fires (main.go lines 47-52) and RunOnce
\* begins
WorkerBegins ==
    /\ result[1] = "none"
    /\ BeginRun(1)

\* RunOnce has returned nil and the worker is back at its select
WorkerWaits ==
    /\ tx[1].phase = "idle"
    /\ result[1] \in {"empty", "ok"}
    /\ result' = [result EXCEPT ![1] = "none"]
    /\ UNCHANGED <<now, stormVars, extVars, cfg, snapshots, invoices, lineItems, invoiceSeq, tx>>

\* time passes: the worker, whose ticker has a period of one minute, has
\* completed a run since the clock last moved
LateAdvance ==
    /\ now < MaxLateTime
    /\ tx[1].phase = "idle"
    /\ result[1] \in {"empty", "ok"}
    /\ now' = now + 1
    /\ result' = [result EXCEPT ![1] = "none"]
    /\ UNCHANGED <<stormVars, extVars, cfg, snapshots, invoices, lineItems, invoiceSeq, tx>>

LateNext ==
    \/ LateAdvance
    \/ IngestorRun
    \/ WorkerBegins
    \/ BuildRun(1)
    \/ WriteInvoice(1)
    \/ CommitRun(1)
    \/ WorkerWaits

LateSpec == LateInit /\ [][LateNext]_vars

\* the worker keeps running and its runs succeed
LateFairness ==
    /\ WF_vars(WorkerBegins)
    /\ WF_vars(BuildRun(1))
    /\ WF_vars(WriteInvoice(1))
    /\ WF_vars(CommitRun(1))
    /\ WF_vars(WorkerWaits)

LateLiveSpec == LateSpec /\ LateFairness

\* ---------------------------------------------------------------- usage ingestor steps
\* what the CDN provider may return for a host and a window
UsagePool ==
    { Usage("a", 0, UsageWindow, GiB \div 4), Usage("b", 0, UsageWindow, GiB \div 2),
      Usage("c", 0, UsageWindow, GiB \div 4), Usage("d", 0, UsageWindow, GiB \div 4),
      Usage("a", 1, 1 + UsageWindow, GiB \div 4),
      Usage("b", 0, UsageWindow + 1, GiB \div 4) }

\* what provider.Usage may return: up to max samples, in any order
UsageBatches(max) == UNION {[1..n -> UsagePool] : n \in 0..max}

UsageInit ==
    /\ now = UsageWindow
    /\ policies \in {p \in PolicyConfigs : Len(p) = 3}
    /\ events \in {e \in EventConfigs : Len(e) = 1}
    /\ tick = <<>>
    /\ avail = 99
    /\ lastErr = "none"
    /\ cfg = NewEngine(DefaultConfig)
    /\ snapshots = <<>>
    /\ invoices = <<>>
    /\ lineItems = <<>>
    /\ invoiceSeq = 0
    /\ tx = [w \in Workers |-> IdleTx]
    /\ result = [w \in Workers |-> "none"]
    /\ MetricsAtRest
    /\ SchedAtRest
    /\ DnsAtRest
    /\ Route53AtRest
    /\ UsageAtRest
    /\ MigrationsAtRest
    /\ ControlAtRest
    /\ CoverageAtRest
    /\ FetchAtRest
    /\ TargetsAtRest
    /\ TailAtRest

\* RunOnce up to the loop over the aggregates: a read or the provider fails,
\* or there is no service or no host, or the usages are aggregated
IngestBeginFrom(batches) ==
    /\ ing.pc = "idle"
    /\ ing.runs < MaxIngestRuns
    /\ \E fails \in BOOLEAN, active \in {{}, Services}, usages \in batches :
          LET hostToService == loadDomains(active, AllServiceDomains)
              aggregates == aggregateFrom(usages, 1, <<>>, hostToService, UsageWindow)
          IN ing' = IF fails
                    THEN [NoIngest EXCEPT !.runs = ing.runs + 1, !.ret = "err"]
                    ELSE IF active = {} \/ DOMAIN hostToService = {}
                    THEN [NoIngest EXCEPT !.runs = ing.runs + 1, !.ret = "nil"]
                    ELSE IF DOMAIN aggregates = {}
                    THEN [NoIngest EXCEPT !.runs = ing.runs + 1, !.ret = "nil"]
                    ELSE [pc |-> "upserting", runs |-> ing.runs + 1, usages |-> usages,
                          pending |-> aggregates, ret |-> "none"]
    /\ UNCHANGED <<now, stormVars, billingVars, opsVars, migrationVars, controlVars, coverageVars, lateVars>>

IngestBegin == IngestBeginFrom(UsageBatches(MaxUsages))

\* the same beside a billing worker, with fewer samples
IngestBeginBesideBilling == IngestBeginFrom(UsageBatches(MaxBilledUsages))

\* one turn of the loop over the aggregates, whose order is not fixed: the
\* upsert is made once no transaction holds its row, or it fails and RunOnce
\* returns the error
IngestUpsert ==
    /\ ing.pc = "upserting"
    /\ \E k \in DOMAIN ing.pending :
          LET left == [j \in DOMAIN ing.pending \ {k} |-> ing.pending[j]]
          IN \/ /\ ~upsertBlocked(snapshots, tx, ing.pending[k])
                /\ snapshots' = UpsertUsageSnapshot(snapshots, ing.pending[k])
                /\ ing' = IF DOMAIN left = {}
                          THEN [NoIngest EXCEPT !.runs = ing.runs, !.ret = "nil"]
                          ELSE [ing EXCEPT !.pending = left]
             \/ /\ snapshots' = snapshots
                /\ ing' = [NoIngest EXCEPT !.runs = ing.runs, !.ret = "err"]
    /\ UNCHANGED <<now, stormVars, cfg, invoices, lineItems, invoiceSeq, tx, result, opsVars,
                   migrationVars, controlVars, coverageVars, lateVars>>

UsageNext ==
    \/ BeginRun(1)
    \/ BuildRun(1)
    \/ WriteInvoice(1)
    \/ CommitRun(1)
    \/ FailRun(1)
    \/ IngestBeginBesideBilling
    \/ IngestUpsert

UsageSpec == UsageInit /\ [][UsageNext]_vars

IngestNext == IngestBegin \/ IngestUpsert

IngestSpec == UsageInit /\ [][IngestNext]_vars

\* ---------------------------------------------------------------- prober: metrics store steps
\* the number of samples a store holds
SampleCount(m) ==
    IF m.build = "targets"
    THEN LET perService == [sv \in DOMAIN m.samples |->
                               totalOver(m.samples[sv], DOMAIN m.samples[sv])]
         IN totalOver([sv \in DOMAIN perService |-> [k \in 1..perService[sv] |-> 0]],
                      DOMAIN perService)
    ELSE totalOver(m.samples, DOMAIN m.samples)

\* the other components at rest
Quiet ==
    /\ policies = <<>>
    /\ events = <<>>
    /\ tick = <<>>
    /\ avail = 99
    /\ lastErr = "none"
    /\ cfg = NewEngine(DefaultConfig)
    /\ snapshots = <<>>
    /\ invoices = <<>>
    /\ lineItems = <<>>
    /\ invoiceSeq = 0
    /\ tx = [w \in Workers |-> IdleTx]
    /\ result = [w \in Workers |-> "none"]

\* the constructors the prober can have built its store with
MetricsInit ==
    /\ now = 0
    /\ Quiet
    /\ metrics \in {NewInMemoryMetrics, NewInMemoryMetricsWithDefault(Frac(1, 2)),
                    NewInMemoryMetricsLegacy}
    /\ lastCall = NoCall
    /\ SchedAtRest
    /\ DnsAtRest
    /\ Route53AtRest
    /\ OthersAtRest

MetricsAdvance ==
    /\ now < MaxMetricsTime
    /\ now' = now + 1
    /\ UNCHANGED <<stormVars, billingVars, restVars, metricsVars, schedVars, dnsVars, r53Vars>>

\* a probe loop records the outcome of one probe
RecordProbeStep ==
    /\ SampleCount(metrics) < MaxSamples
    /\ \E pt \in ProbedTargets, ok \in BOOLEAN :
          LET sv == pt[1]
              tg == pt[2]
          IN metrics' = IF metrics.build = "targets"
                     THEN RecordProbe(metrics, sv, tg, ok, now)
                     ELSE RecordProbeLegacy(metrics, sv, ok, now)
    /\ UNCHANGED <<now, stormVars, billingVars, restVars, lastCall, schedVars, dnsVars, r53Vars>>

\* the storm engine asks for the availability of a service
AvailabilityCall ==
    /\ lastCall.n < MaxCalls
    /\ \E sv \in Services, window \in Windows :
          LET res == IF metrics.build = "targets"
                     THEN Availability(metrics, sv, window, now)
                     ELSE AvailabilityLegacy(metrics, sv, window, now)
          IN /\ metrics' = res.metrics
             /\ lastCall' = [n |-> lastCall.n + 1, service |-> sv, window |-> window,
                             value |-> res.value,
                             evicted |-> DOMAIN Get(metrics.samples, sv)
                                            \ DOMAIN Get(res.metrics.samples, sv)]
    /\ UNCHANGED <<now, stormVars, billingVars, restVars, schedVars, dnsVars, r53Vars>>

MetricsNext == MetricsAdvance \/ RecordProbeStep \/ AvailabilityCall

MetricsSpec == MetricsInit /\ [][MetricsNext]_vars

\* ---------------------------------------------------------------- prober: scheduler steps
FullDb == [services |-> {1, 12}, domains |-> {10, 11, 12}]
\* the rows that come and go
Changing == [services |-> {12}, domains |-> {11}]

SchedInit ==
    /\ now = 0
    /\ Quiet
    /\ MetricsAtRest
    /\ sched = NewScheduler
    /\ procs = <<>>
    /\ ctxDone = FALSE
    /\ schedDb = FullDb
    /\ passLog = NoPass
    /\ lateProbe = FALSE
    /\ DnsAtRest
    /\ Route53AtRest
    /\ OthersAtRest

\* the loop over the services in Run: the targets of a service are ensured,
\* or the loops of a service whose fetch fails are preserved
RECURSIVE reconcileServices(_, _, _, _)
reconcileServices(st, todo, d, failing) ==
    IF todo = <<>> THEN st
    ELSE LET svc == Head(todo)
             targets == targetsForService(svc, GetServiceDomains(d, svc.ID))
             ensured == ensureAll([loops |-> st.loops, procs |-> st.procs], targets)
         IN IF svc.ID \in failing
            THEN reconcileServices(
                     [st EXCEPT !.active = preserveExistingLoops(@, st.loops, svc.ID)],
                     Tail(todo), d, failing)
            ELSE reconcileServices(
                     [loops |-> ensured.loops, procs |-> ensured.procs,
                      active |-> st.active \cup {key(t) : t \in targets}],
                     Tail(todo), d, failing)

\* the keys the fetches of a pass return
fetchedKeys(d, failing) ==
    UNION {{key(t) : t \in targetsForService(ServiceRows[i],
                                 GetServiceDomains(d, ServiceRows[i].ID))}
             : i \in {j \in DOMAIN ServiceRows :
                         ServiceRows[j].ID \in d.services \ failing}}

\* one iteration of the loop in Run up to its select: GetActiveServices
\* fails, or a reconcile pass runs in which the domain fetch of some services
\* may fail
ReconcilePass ==
    /\ sched.pc = "top"
    /\ \/ /\ sched' = [sched EXCEPT !.pc = "sleep"]
          /\ UNCHANGED <<procs, passLog>>
       \/ \E failing \in SUBSET schedDb.services :
             LET st == reconcileServices([loops |-> sched.loops, procs |-> procs,
                                          active |-> {}],
                                         ActiveServiceRows(schedDb), schedDb, failing)
                 after == stopMissingLoops([loops |-> st.loops, procs |-> st.procs],
                                           st.active)
             IN /\ Len(st.procs) <= MaxLoops
                /\ sched' = [pc |-> "sleep", loops |-> after.loops]
                /\ procs' = after.procs
                /\ passLog' = [ran |-> TRUE, atStart |-> sched.loops,
                               fetched |-> fetchedKeys(schedDb, failing),
                               failed |-> failing]
    /\ UNCHANGED <<now, stormVars, billingVars, restVars, metricsVars, dnsVars, r53Vars, ctxDone, schedDb, lateProbe>>

\* the timer of the select in Run fires and the next iteration begins
Wake ==
    /\ sched.pc = "sleep"
    /\ sched' = [sched EXCEPT !.pc = "top"]
    /\ passLog' = NoPass
    /\ UNCHANGED <<now, stormVars, billingVars, restVars, metricsVars, dnsVars, r53Vars, procs, ctxDone, schedDb,
                   lateProbe>>

\* the select in Run takes ctx.Done: Run returns and the deferred
\* cancelAllLoops runs
RunReturns ==
    /\ sched.pc = "sleep"
    /\ ctxDone
    /\ LET st == cancelAllLoops([loops |-> sched.loops, procs |-> procs])
       IN /\ sched' = [sched EXCEPT !.pc = "returned", !.loops = st.loops]
          /\ procs' = st.procs
    /\ UNCHANGED <<now, stormVars, billingVars, restVars, metricsVars, dnsVars, r53Vars, ctxDone, schedDb, passLog,
                   lateProbe>>

\* the root context is cancelled
Shutdown ==
    /\ ~ctxDone
    /\ ctxDone' = TRUE
    /\ UNCHANGED <<now, stormVars, billingVars, restVars, metricsVars, dnsVars, r53Vars, sched, procs, schedDb,
                   passLog, lateProbe>>

\* the context of a probe loop is done: its own cancel was called, or the
\* root context it derives from is cancelled
LoopDone(i) == ctxDone \/ procs[i].cancelled

\* probeLoop: one iteration, the probe, the RecordProbe call and the select,
\* which ends the loop when it takes ctx.Done
ProbeOnce ==
    /\ \E i \in DOMAIN procs :
          /\ procs[i].pc = "running"
          /\ lateProbe' = (lateProbe \/ sched.pc = "returned")
          /\ \/ /\ LoopDone(i)
                /\ procs' = [procs EXCEPT ![i].pc = "done"]
             \/ UNCHANGED procs
    /\ UNCHANGED <<now, stormVars, billingVars, restVars, metricsVars, dnsVars, r53Vars, sched, ctxDone, schedDb,
                   passLog>>

\* a service is activated or deactivated, a domain added or removed
DbChange ==
    /\ \/ \E id \in Changing.services :
             schedDb' = [schedDb EXCEPT !.services =
                            IF id \in @ THEN @ \ {id} ELSE @ \cup {id}]
       \/ \E id \in Changing.domains :
             schedDb' = [schedDb EXCEPT !.domains =
                            IF id \in @ THEN @ \ {id} ELSE @ \cup {id}]
    /\ UNCHANGED <<now, stormVars, billingVars, restVars, metricsVars, dnsVars, r53Vars, sched, procs, ctxDone,
                   passLog, lateProbe>>

SchedNext ==
    \/ ReconcilePass
    \/ Wake
    \/ RunReturns
    \/ Shutdown
    \/ ProbeOnce
    \/ DbChange

SchedSpec == SchedInit /\ [][SchedNext]_vars

\* ---------------------------------------------------------------- prober: one probe loop
\* the target of the loop: service 1, metrics key "a"
LoopTarget == probeTarget(1, 10, "a")

\* ensureLoop has started the loop (line 105) of a prober with the store of
\* NewInMemoryMetrics
ProbeLoopInit ==
    /\ now = 0
    /\ Quiet
    /\ metrics = NewInMemoryMetrics
    /\ lastCall = NoCall
    /\ SchedAtRest
    /\ DnsAtRest
    /\ Route53AtRest
    /\ UsageAtRest
    /\ MigrationsAtRest
    /\ ControlAtRest
    /\ CoverageAtRest
    /\ FetchAtRest
    /\ TargetsAtRest
    /\ EnginesAtRest
    /\ loop = [NoLoop EXCEPT !.pc = "probing"]

LoopUnchanged ==
    UNCHANGED <<now, stormVars, billingVars, lastCall, schedVars, dnsVars, r53Vars, usageVars,
                migrationVars, controlVars, coverageVars, fetchVars, targetVars, eng>>

\* what doProbe can lead to (lines 144-153): with the context cancelled the
\* request fails and ok stays false; otherwise the probe succeeds or fails
probeOutcomes(cancelled) == IF cancelled THEN {FALSE} ELSE BOOLEAN

\* doProbe returns (lines 142-153)
LoopProbeReturns ==
    /\ loop.pc = "probing"
    /\ \E ok \in probeOutcomes(loop.cancelled) :
          loop' = [loop EXCEPT !.pc = "record", !.ok = ok]
    /\ UNCHANGED metrics
    /\ LoopUnchanged

\* s.m.RecordProbe (line 155)
LoopRecords ==
    /\ loop.pc = "record"
    /\ SampleCount(metrics) < MaxSamples
    /\ metrics' = RecordProbe(metrics, LoopTarget.serviceID, LoopTarget.metricsKey,
                              loop.ok, now)
    /\ loop' = [loop EXCEPT !.pc = "select"]
    /\ LoopUnchanged

\* the cases the select (lines 157-161) can take: ctx.Done when the context
\* is cancelled, the timer when it has fired
selectCases(cancelled) == IF cancelled THEN {"done", "probing"} ELSE {"probing"}

LoopSelects ==
    /\ loop.pc = "select"
    /\ \E pc \in selectCases(loop.cancelled) : loop' = [loop EXCEPT !.pc = pc]
    /\ UNCHANGED metrics
    /\ LoopUnchanged

\* the cancel of the loop is called (stopMissingLoops line 115,
\* cancelAllLoops line 135), or the root context is cancelled
LoopCancelled ==
    /\ ~loop.cancelled
    /\ loop' = [loop EXCEPT !.cancelled = TRUE]
    /\ UNCHANGED metrics
    /\ LoopUnchanged

ProbeLoopNext ==
    \/ MetricsAdvance
    \/ LoopProbeReturns
    \/ LoopRecords
    \/ LoopSelects
    \/ LoopCancelled

ProbeLoopSpec == ProbeLoopInit /\ [][ProbeLoopNext]_vars

\* ---------------------------------------------------------------- dns-operator steps
DnsInit ==
    /\ now = 0
    /\ Quiet
    /\ MetricsAtRest
    /\ sched = NewScheduler
    /\ procs = <<>>
    /\ ctxDone = FALSE
    /\ schedDb = FullDb
    /\ passLog = NoPass
    /\ lateProbe = FALSE
    /\ DnsAtRest
    /\ Route53AtRest
    /\ OthersAtRest

\* the storm engine opens a storm for a service
StormOpens ==
    /\ Len(events) < MaxStorms
    /\ \E id \in FullDb.services, kind \in Kinds :
          events' = InsertStormEvent(events, id, kind, now)
    /\ UNCHANGED <<now, policies, tick, avail, lastErr, billingVars, extVars>>

\* the storm engine closes an open storm
StormCloses ==
    /\ \E i \in Indices(events) :
          /\ ~events[i].ended_at.valid
          /\ events' = MarkStormEventResolved(events, events[i].id, ValidTime(now))
    /\ UNCHANGED <<now, policies, tick, avail, lastErr, billingVars, extVars>>

\* where the operator is when the services left are todo
afterServices(todo) ==
    [pc |-> IF todo = <<>> THEN "idle" ELSE "pass", todo |-> todo, pending |-> <<>>]

\* the loop over the domains given up at a SetWeights error
afterSetWeights_stopsAtError(err, todo, pending) ==
    IF pending # <<>> /\ err = "" THEN [pc |-> "calls", todo |-> todo, pending |-> pending]
    ELSE afterServices(todo)

\* where the operator is after a SetWeights call returned err, when the
\* calls left for the service are pending
afterSetWeights(err, todo, pending) ==
    IF pending # <<>> THEN [pc |-> "calls", todo |-> todo, pending |-> pending]
    ELSE afterServices(todo)

\* reconcile at startup and at every tick of the ticker: GetActiveServices
\* fails and the pass is given up, or the loop over the services begins
DnsPassStart ==
    /\ dnsOp.pc \in {"startup", "idle"}
    /\ dnsCalls' = <<>>
    /\ \/ /\ dnsOp' = afterServices(<<>>)
          /\ dnsLog' = NoDnsPass
       \/ /\ dnsOp' = afterServices(ActiveServiceRows(schedDb))
          /\ dnsLog' = [readsOk |-> TRUE, services |-> schedDb.services,
                        domains |-> <<>>, weights |-> <<>>, setErrors |-> <<>>]
    /\ UNCHANGED <<now, stormVars, billingVars, restVars, metricsVars, schedVars, r53Vars>>

\* the body of the loop over the services: DesiredRouting fails, or
\* GetServiceDomains fails, or the loop over the domains begins
DnsService ==
    /\ dnsOp.pc = "pass"
    /\ LET svc == Head(dnsOp.todo)
           weights == DesiredRouting(events, svc.ID)
           domains == domainsInOrder(GetServiceDomains(schedDb, svc.ID))
       IN \/ /\ dnsLog' = [dnsLog EXCEPT !.readsOk = FALSE]
             /\ dnsOp' = afterServices(Tail(dnsOp.todo))
          \/ /\ dnsLog' = [dnsLog EXCEPT !.readsOk = FALSE,
                                         !.weights = Put(@, svc.ID, weights)]
             /\ dnsOp' = afterServices(Tail(dnsOp.todo))
          \/ /\ dnsLog' = [dnsLog EXCEPT
                              !.weights = Put(@, svc.ID, weights),
                              !.domains = Put(@, svc.ID, {dom.Name : dom \in Range(domains)})]
             /\ dnsOp' = afterSetWeights("", Tail(dnsOp.todo),
                                         setWeightsCalls(domains, weights))
    /\ UNCHANGED <<now, stormVars, billingVars, restVars, metricsVars, schedVars, dnsCalls, r53Vars>>

\* the body of the loop over the domains: dnsProv.SetWeights is called; the
\* noop provider logs the weights and returns nil, the Route53 provider
\* begins its attempts
DnsSetWeights ==
    /\ dnsOp.pc = "calls"
    /\ LET c == Head(dnsOp.pending)
       IN IF dnsProv.name = "route53"
          THEN /\ r53' = startSetWeights(r53, c.domain, Weights(c.primary, c.backup))
               /\ dnsOp' = [dnsOp EXCEPT !.pc = "waiting"]
               /\ UNCHANGED dnsCalls
          ELSE /\ dnsCalls' = Append(dnsCalls, c)
               /\ dnsOp' = afterSetWeights("", dnsOp.todo, Tail(dnsOp.pending))
               /\ UNCHANGED r53
    /\ UNCHANGED <<now, stormVars, billingVars, restVars, metricsVars, schedVars, dnsLog, dnsProv>>

\* SetWeights of the Route53 provider returns to the loop over the domains:
\* its error is logged and the loop goes on
DnsSetWeightsReturns ==
    /\ dnsOp.pc = "waiting"
    /\ r53.call.pc = "returned"
    /\ LET c == Head(dnsOp.pending)
           err == IF r53.call.ret = "err" THEN r53.call.lastErr ELSE ""
       IN /\ dnsCalls' = Append(dnsCalls, c)
          /\ dnsLog' = [dnsLog EXCEPT
                           !.setErrors = IF err # ""
                                         THEN Append(@, [domain |-> c.domain, err |-> err])
                                         ELSE @]
          /\ dnsOp' = afterSetWeights(err, dnsOp.todo, Tail(dnsOp.pending))
    /\ UNCHANGED <<now, stormVars, billingVars, restVars, metricsVars, schedVars, r53Vars>>

\* the select of the operator takes ctx.Done
DnsStop ==
    /\ dnsOp.pc = "idle"
    /\ dnsOp' = [dnsOp EXCEPT !.pc = "stopped"]
    /\ UNCHANGED <<now, stormVars, billingVars, restVars, metricsVars, schedVars, dnsCalls, dnsLog,
                   r53Vars>>

DnsNext ==
    \/ StormOpens
    \/ StormCloses
    \/ DbChange
    \/ DnsPassStart
    \/ DnsService
    \/ DnsSetWeights
    \/ DnsStop

DnsSpec == DnsInit /\ [][DnsNext]_vars

\* one pass through the loop of SetWeights
SetWeightsAttempt ==
    /\ r53.call.pc = "loop"
    /\ \E fail \in ApiFailures : r53' = attemptSetWeights(r53, fail)
    /\ UNCHANGED <<now, stormVars, billingVars, restVars, metricsVars, schedVars, dnsVars, dnsProv>>

\* the readiness check of the operator is called
Readyz ==
    /\ dnsOp.pc # "stopped"
    /\ \E dbErr \in BOOLEAN :
          dnsProv' = [dnsProv EXCEPT !.ready = IF readiness(dbErr, dnsProv) = ""
                                               THEN "ready" ELSE readiness(dbErr, dnsProv)]
    /\ UNCHANGED <<now, stormVars, billingVars, restVars, metricsVars, schedVars, dnsVars, r53>>

\* main with each provider configuration: no region, a region whose
\* Route53 provider is built, a region whose Route53 provider fails to build
OperatorInit ==
    /\ now = 0
    /\ Quiet
    /\ MetricsAtRest
    /\ sched = NewScheduler
    /\ procs = <<>>
    /\ ctxDone = FALSE
    /\ schedDb = FullDb
    /\ passLog = NoPass
    /\ lateProbe = FALSE
    /\ dnsOp = [pc |-> "startup", todo |-> <<>>, pending |-> <<>>]
    /\ dnsCalls = <<>>
    /\ dnsLog = NoDnsPass
    /\ r53 = NewRoute53(0)
    /\ OthersAtRest
    /\ \E AWSRegion \in {"", "us-east-1"}, initFails \in BOOLEAN :
          /\ (AWSRegion = "" => ~initFails)
          /\ dnsProv = selectProvider(AWSRegion, initFails)

OperatorNext ==
    \/ DnsPassStart
    \/ DnsService
    \/ DnsSetWeights
    \/ SetWeightsAttempt
    \/ DnsSetWeightsReturns
    \/ DnsStop
    \/ Readyz

OperatorSpec == OperatorInit /\ [][OperatorNext]_vars

\* ---------------------------------------------------------------- Route53 provider steps
AttemptConfigs == (0 - 1)..MaxAttemptsConfig
DomainNames == {<<>>, <<" ">>, <<"a">>, <<"a", ".">>}
\* the weights the operator asks for and the weights of the tests
WeightArgs == {Weights(100, 0), Weights(0, 100), Weights(50, 10), Weights(10, 5)}

Route53Init ==
    /\ now = 0
    /\ Quiet
    /\ MetricsAtRest
    /\ SchedAtRest
    /\ DnsAtRest
    /\ \E MaxAttempts \in AttemptConfigs : r53 = NewRoute53(MaxAttempts)
    /\ OthersAtRest

\* SetWeights is called
SetWeightsCall ==
    /\ r53.call.pc \in {"idle", "returned"}
    /\ \E domain \in DomainNames, weights \in WeightArgs :
          r53' = [startSetWeights(r53, domain, weights) EXCEPT !.prev = previously(r53.call)]
    /\ UNCHANGED <<now, stormVars, billingVars, restVars, metricsVars, schedVars, dnsVars, dnsProv>>

Route53Next == SetWeightsCall \/ SetWeightsAttempt

Route53Spec == Route53Init /\ [][Route53Next]_vars

\* ---------------------------------------------------------------- migration steps
\* a database with none or the first of the migrations applied, and the
\* binaries about to start
MigrationInit ==
    /\ now = 0
    /\ Quiet
    /\ MetricsAtRest
    /\ SchedAtRest
    /\ DnsAtRest
    /\ Route53AtRest
    /\ UsageAtRest
    /\ ControlAtRest
    /\ CoverageAtRest
    /\ FetchAtRest
    /\ TargetsAtRest
    /\ TailAtRest
    /\ \E done \in {0, 1} :
          mig = [NoMigrations EXCEPT
                    !.schema = Range(SubSeq(migrationVersions(EmbeddedFiles), 1, done)),
                    !.log = [i \in 1..done |->
                                [version |-> migrationVersions(EmbeddedFiles)[i], proc |-> 0]]]

MigUnchanged ==
    UNCHANGED <<now, stormVars, billingVars, opsVars, usageVars, controlVars, coverageVars, lateVars>>

\* a binary starts: Open up to runMigrations
MigStart(p) ==
    /\ mig.proc[p].pc \in {"down", "failed"}
    /\ mig.proc[p].starts < MaxStarts
    /\ mig' = [mig EXCEPT !.proc[p] = [NoStart EXCEPT !.pc = "start",
                                                      !.starts = mig.proc[p].starts + 1]]
    /\ MigUnchanged

\* runMigrations line 34: pg_advisory_lock is granted on the session the
\* pool ran it on
MigLock(p) ==
    /\ mig.proc[p].pc = "start"
    /\ \E s \in poolConn(p) :
          /\ lockGranted(mig.lock, s)
          /\ mig' = [mig EXCEPT !.lock = s, !.proc[p].pc = "locked"]
    /\ MigUnchanged

\* line 34 fails: runMigrations returns the error and Open closes the pool
MigLockFails(p) ==
    /\ mig.proc[p].pc = "start"
    /\ mig' = [mig EXCEPT !.lock = closePool(@, p), !.proc[p].pc = "failed",
                          !.proc[p].err = TRUE]
    /\ MigUnchanged

\* lines 44-54: the table is ensured, the applied versions and the file
\* names are read; an error ends the run
MigRead(p) ==
    /\ mig.proc[p].pc = "locked"
    /\ \/ mig' = [mig EXCEPT !.proc[p].pc = "applying", !.proc[p].applied = mig.schema]
       \/ mig' = [mig EXCEPT !.proc[p].pc = "unlocking", !.proc[p].err = TRUE]
    /\ MigUnchanged

\* lines 55-67, one turn of the loop: an applied version is passed over; the
\* next one is applied and recorded in one transaction, or applyMigration
\* fails, the transaction leaves nothing, and the run ends
MigApply(p) ==
    /\ mig.proc[p].pc = "applying"
    /\ LET versions == migrationVersions(EmbeddedFiles)
           i == mig.proc[p].next
       IN IF i > Len(versions)
          THEN mig' = [mig EXCEPT !.proc[p].pc = "unlocking"]
          ELSE IF versions[i] \in mig.proc[p].applied
          THEN mig' = [mig EXCEPT !.proc[p].next = i + 1]
          ELSE \E failAt \in MigrationFailures :
                  LET done == applyMigration(mig, versions[i], p, failAt)
                  IN mig' = [mig EXCEPT
                                !.schema = done.schema,
                                !.log = done.log,
                                !.proc[p].pc = IF done.err THEN "unlocking" ELSE @,
                                !.proc[p].err = done.err,
                                !.proc[p].next = IF done.err THEN @ ELSE i + 1,
                                !.proc[p].ran = IF done.err THEN @ ELSE Append(@, versions[i])]
    /\ MigUnchanged

\* the deferred function, lines 37-42, and the return of Open: the unlock
\* runs on the session the pool gives it; after an error Open closes the pool
MigUnlock(p) ==
    /\ mig.proc[p].pc = "unlocking"
    /\ \E s \in poolConn(p), unlockErr \in BOOLEAN :
          LET err == mig.proc[p].err \/ unlockErr
              lock == IF unlockErr THEN mig.lock ELSE advisoryUnlock(mig.lock, s)
          IN mig' = [mig EXCEPT
                        !.lock = IF err THEN closePool(lock, p) ELSE lock,
                        !.proc[p].pc = IF err THEN "failed" ELSE "running",
                        !.proc[p].err = err]
    /\ MigUnchanged

MigrationNext ==
    \/ \E p \in Procs : MigStart(p)
    \/ \E p \in Procs : MigLock(p)
    \/ \E p \in Procs : MigLockFails(p)
    \/ \E p \in Procs : MigRead(p)
    \/ \E p \in Procs : MigApply(p)
    \/ \E p \in Procs : MigUnlock(p)

MigrationSpec == MigrationInit /\ [][MigrationNext]_vars

\* every statement that can be executed is executed in the end; errors need
\* not happen
MigrationFairness ==
    \A p \in Procs :
       /\ WF_vars(MigStart(p))
       /\ WF_vars(MigLock(p))
       /\ WF_vars(MigRead(p))
       /\ WF_vars(MigApply(p))
       /\ WF_vars(MigUnlock(p))

MigrationLiveSpec == MigrationSpec /\ MigrationFairness

\* ---------------------------------------------------------------- billing: coverage steps
\* the storms of one service as a storm engine can leave them: an event ends
\* no earlier than it started, or is still open
CoverageStorms ==
    {StormEvent(1, "failover", st, NullTime) : st \in 0..MaxCoverageTime}
    \cup {StormEvent(1, "failover", p[1], ValidTime(p[2])) :
             p \in {q \in (0..MaxCoverageTime) \X (0..MaxCoverageTime) : q[1] <= q[2]}}

RECURSIVE StormTables(_)
\* the storm_events tables of up to n rows
StormTables(n) ==
    IF n = 0 THEN {<<>>}
    ELSE LET shorter == StormTables(n - 1)
         IN shorter \cup {Append(t, e) : t \in {x \in shorter : Len(x) = n - 1},
                                         e \in CoverageStorms}

CoverageInit ==
    /\ now = 0
    /\ Quiet
    /\ MetricsAtRest
    /\ SchedAtRest
    /\ DnsAtRest
    /\ Route53AtRest
    /\ OthersAtRest

\* lines 84-96 of RunOnce for one snapshot window: the storms are those
\* GetStormEventsForWindow returns, and coverageRatio is called with them
CoverageOfWindow ==
    /\ ~cov.called
    /\ \E windowStart, windowEnd \in 0..MaxCoverageTime, table \in StormTables(MaxCoverageStorms) :
          LET storms == GetStormEventsForWindow(WithIds(table), 1, windowEnd, windowStart)
          IN cov' = [called |-> TRUE, windowStart |-> windowStart, windowEnd |-> windowEnd,
                     table |-> table, storms |-> storms,
                     ratio |-> coverageRatio(windowStart, windowEnd, storms)]
    /\ UNCHANGED <<now, stormVars, billingVars, opsVars, usageVars, migrationVars, controlVars, lateVars>>

\* coverageRatio called with storms as they are, in any order
CoverageOfStorms ==
    /\ ~cov.called
    /\ \E windowStart, windowEnd \in 0..MaxCoverageTime, table \in StormTables(MaxCoverageStorms) :
          cov' = [called |-> TRUE, windowStart |-> windowStart, windowEnd |-> windowEnd,
                  table |-> table, storms |-> WithIds(table),
                  ratio |-> coverageRatio(windowStart, windowEnd, WithIds(table))]
    /\ UNCHANGED <<now, stormVars, billingVars, opsVars, usageVars, migrationVars, controlVars, lateVars>>

CoverageNext == CoverageOfWindow \/ CoverageOfStorms

CoverageSpec == CoverageInit /\ [][CoverageNext]_vars

\* ---------------------------------------------------------------- Route53 provider: paging steps
\* listings of a zone from the name a on, for the names a and x.a: the weighted pair of a with other
\* record sets around it, or one of the pair missing, not weighted, or of
\* another name only
ZoneListings ==
    LET txt == ResourceRecordSet(<<"a", ".">>, "TXT", "", NilInt, 300, <<"v=1">>)
        primary == ResourceRecordSet(<<"a", ".">>, "CNAME", "Primary", Int64(10), 60, <<"p.net.">>)
        backup == ResourceRecordSet(<<"a", ".">>, "CNAME", "backup", Int64(5), 60, <<"b.net.">>)
        plain == ResourceRecordSet(<<"a", ".">>, "CNAME", "backup", NilInt, 60, <<"b.net.">>)
        other == ResourceRecordSet(<<"a", ".">>, "CNAME", "canary", Int64(1), 60, <<"c.net.">>)
        xp == ResourceRecordSet(<<"x", "a", ".">>, "CNAME", "primary", Int64(1), 60, <<"p.net.">>)
        xb == ResourceRecordSet(<<"x", "a", ".">>, "CNAME", "backup", Int64(1), 60, <<"b.net.">>)
    IN { <<>>,
         <<txt, primary, backup, xp, xb>>,
         <<backup, other, txt, primary, xp>>,
         <<txt, primary, xp, xb>>,
         <<backup, xp, xb>>,
         <<primary, plain, other, xb>>,
         <<txt, xp, xb>> }

FetchInit ==
    /\ now = 0
    /\ Quiet
    /\ MetricsAtRest
    /\ SchedAtRest
    /\ DnsAtRest
    /\ Route53AtRest
    /\ UsageAtRest
    /\ MigrationsAtRest
    /\ ControlAtRest
    /\ CoverageAtRest
    /\ TargetsAtRest
    /\ TailAtRest
    /\ \E records \in ZoneListings, domain \in {<<"a">>, <<"x", "a">>} :
          fetch = [NoFetch EXCEPT !.pc = "listing", !.records = records, !.domain = domain]

FetchUnchanged ==
    UNCHANGED <<now, stormVars, billingVars, opsVars, usageVars, migrationVars, controlVars,
                coverageVars, targetVars, tailVars>>

\* ListResourceRecordSets fails (lines 287-289)
FetchPageFails ==
    /\ fetch.pc = "listing"
    /\ fetch' = [fetch EXCEPT !.pc = "fetched", !.err = "list record sets"]
    /\ FetchUnchanged

\* fetchWeightedRecords, one turn of its loop (lines 286-321): the page is
\* scanned and the loop ends or goes on to the next page; Route53 answers
\* with 1 to MaxItems record sets when there are any
FetchPage ==
    /\ fetch.pc = "listing"
    /\ \E maxItems \in 1..MaxItems :
             LET resp == ListResourceRecordSets(fetch.records, fetch.start, maxItems)
                 found == scanPage(resp.ResourceRecordSets, fetch.domain, fetch.found)
             IN fetch' = [fetch EXCEPT
                             !.found = found,
                             !.start = IF found.primary # <<>> /\ found.backup # <<>>
                                       THEN @
                                       ELSE IF ~resp.IsTruncated THEN @
                                       ELSE nextStart(@, resp),
                             !.pc = IF found.primary # <<>> /\ found.backup # <<>>
                                    THEN "fetched"
                                    ELSE IF ~resp.IsTruncated THEN "fetched"
                                    ELSE "listing",
                             !.err = IF (found.primary = <<>> \/ found.backup = <<>>)
                                        /\ ~resp.IsTruncated
                                     THEN "weighted records not found" ELSE ""]
    /\ FetchUnchanged

\* setWeightsOnce after fetchWeightedRecords (lines 209-233): its error is
\* returned, or the batch of the two updates is submitted
FetchReturns ==
    /\ fetch.pc = "fetched"
    /\ fetch' = [fetch EXCEPT
                    !.pc = "returned",
                    !.batch = IF fetch.err # "" THEN NoBatch
                              ELSE [HostedZoneId |-> "Z123",
                                    Changes |-> changesOf(withWeight(fetch.found.primary[1], 100),
                                                          withWeight(fetch.found.backup[1], 0))]]
    /\ FetchUnchanged

FetchNext == FetchPage \/ FetchPageFails \/ FetchReturns

FetchSpec == FetchInit /\ [][FetchNext]_vars

\* the provider goes on running, and Route53 need not fail
FetchLiveSpec == FetchSpec /\ WF_vars(FetchPage) /\ WF_vars(FetchReturns)

\* ---------------------------------------------------------------- prober: targets steps
\* CDN hosts as the API stores them (not blank): a host, the domain a in
\* upper case, a host with spaces around it, with a scheme, with a port, and
\* one with a space inside
CdnHosts ==
    {<<"p">>, <<"A">>, <<" ", "p", " ">>, <<"http://", "p">>, <<"p", ":", "8">>, <<"b", " ", "d">>}

TargetDomains ==
    {[ID |-> 10, service_id |-> 1, Name |-> <<"a">>],
     [ID |-> 11, service_id |-> 1, Name |-> <<"B">>]}

TargetsInit ==
    /\ now = 0
    /\ Quiet
    /\ MetricsAtRest
    /\ SchedAtRest
    /\ DnsAtRest
    /\ Route53AtRest
    /\ OthersAtRest

\* targetsForService is called for a service and the domains it has
TargetsCall ==
    /\ ~tgt.called
    /\ \E primary, backup \in CdnHosts \cup {<<>>}, domains \in SUBSET TargetDomains,
          path \in {<<>>, <<"h">>, <<"/", "h">>} :
          LET svc == [ID |-> 1, PrimaryCdn |-> primary, BackupCdn |-> backup]
          IN tgt' = [called |-> TRUE, svc |-> svc, domains |-> domains, path |-> path,
                     targets |-> targetsAt(svc, domains, path)]
    /\ UNCHANGED <<now, stormVars, billingVars, opsVars, usageVars, migrationVars, controlVars,
                   coverageVars, fetchVars, tailVars>>

TargetsNext == TargetsCall

TargetsSpec == TargetsInit /\ [][TargetsNext]_vars

\* ---------------------------------------------------------------- control plane steps
\* two customers with a service each, one of customer 1 already deleted
ControlInit ==
    /\ now = 0
    /\ Quiet
    /\ MetricsAtRest
    /\ SchedAtRest
    /\ DnsAtRest
    /\ Route53AtRest
    /\ UsageAtRest
    /\ MigrationsAtRest
    /\ CoverageAtRest
    /\ FetchAtRest
    /\ TargetsAtRest
    /\ TailAtRest
    /\ ctl = [NoControl EXCEPT !.services = <<ServiceRow(1, 1, "one", FALSE),
                                              ServiceRow(2, 2, "two", FALSE),
                                              ServiceRow(3, 1, "three", TRUE)>>]

CtlUnchanged ==
    UNCHANGED <<now, stormVars, billingVars, opsVars, usageVars, migrationVars, coverageVars, lateVars>>

\* handleListServices
HandleListServices(r) ==
    /\ \E customerID \in Customers :
          /\ ctl.req[r].pc \in {"idle", "done"}
          /\ ctl.served < MaxRequests
          /\ ctl' = [ctl EXCEPT
                        !.served = @ + 1,
                        !.req[r] = answered([NoRequest EXCEPT !.handler = "list",
                                                               !.customerID = customerID],
                                            200,
                                            GetActiveServicesForCustomer(ctl.services, customerID))]
    /\ CtlUnchanged

\* handleGetService, up to the service it answers with
HandleGetService(r) ==
    /\ \E customerID \in Customers, serviceID \in 1..3 :
          /\ ctl.req[r].pc \in {"idle", "done"}
          /\ ctl.served < MaxRequests
          /\ LET rows == GetServiceForCustomer(ctl.services, serviceID, customerID)
                 req == [NoRequest EXCEPT !.handler = "get", !.customerID = customerID,
                                          !.serviceID = serviceID]
             IN ctl' = [ctl EXCEPT
                           !.served = @ + 1,
                           !.req[r] = IF rows = <<>> THEN answered(req, 404, <<>>)
                                      ELSE answered(req, 200, rows)]
    /\ CtlUnchanged

\* handleDeleteService
HandleDeleteService(r) ==
    /\ \E customerID \in Customers, serviceID \in 1..3 :
          /\ ctl.req[r].pc \in {"idle", "done"}
          /\ ctl.served < MaxRequests
          /\ LET deleted == SoftDeleteService(ctl.services, serviceID, customerID)
                 req == [NoRequest EXCEPT !.handler = "delete", !.customerID = customerID,
                                          !.serviceID = serviceID]
             IN ctl' = [ctl EXCEPT
                           !.served = @ + 1,
                           !.services = deleted.services,
                           !.req[r] = IF deleted.rows = <<>> THEN answered(req, 404, <<>>)
                                      ELSE answered(req, 204, <<>>)]
    /\ CtlUnchanged

\* handleUpdateService up to its UpdateService: the service is read for the
\* customer, the body is decoded and validated
HandleUpdateServiceReads(r) ==
    /\ \E customerID \in Customers, serviceID \in 1..3, name \in {"", "new"} :
          /\ ctl.req[r].pc \in {"idle", "done"}
          /\ ctl.served < MaxRequests
          /\ LET rows == GetServiceForCustomer(ctl.services, serviceID, customerID)
                 req == [NoRequest EXCEPT !.handler = "update", !.customerID = customerID,
                                          !.serviceID = serviceID, !.name = name]
             IN ctl' = [ctl EXCEPT
                           !.served = @ + 1,
                           !.req[r] = IF rows = <<>> THEN answered(req, 404, <<>>)
                                      ELSE IF IsBlankName(name) THEN answered(req, 400, <<>>)
                                      ELSE [req EXCEPT !.pc = "read", !.svc = rows]]
    /\ CtlUnchanged

\* the rest of handleUpdateService: UpdateService with the id and the
\* customer of the row read, and the answer
HandleUpdateServiceWrites(r) ==
    /\ ctl.req[r].pc = "read"
    /\ LET svc == ctl.req[r].svc[1]
           updated == UpdateService(ctl.services, svc.ID, svc.CustomerID, ctl.req[r].name)
       IN ctl' = [ctl EXCEPT
                     !.services = updated.services,
                     !.req[r] = IF updated.rows = <<>> THEN answered(@, 404, <<>>)
                                ELSE answered(@, 200, updated.rows)]
    /\ CtlUnchanged

ControlNext ==
    \/ \E r \in Requests : HandleListServices(r)
    \/ \E r \in Requests : HandleGetService(r)
    \/ \E r \in Requests : HandleDeleteService(r)
    \/ \E r \in Requests : HandleUpdateServiceReads(r)
    \/ \E r \in Requests : HandleUpdateServiceWrites(r)

ControlSpec == ControlInit /\ [][ControlNext]_vars

\* ---------------------------------------------------------------- storm engine: two probers
\* one policy of service 1, with and without a cooldown
EnginePolicies == { <<Policy(1, "failover", 90, 60, cd, 3)>> : cd \in {0, 1} }

EnginesInit ==
    /\ now = 0
    /\ policies \in EnginePolicies
    /\ events = <<>>
    /\ tick = <<>>
    /\ avail \in Avails
    /\ lastErr = "none"
    /\ cfg = NewEngine(DefaultConfig)
    /\ snapshots = <<>>
    /\ invoices = <<>>
    /\ lineItems = <<>>
    /\ invoiceSeq = 0
    /\ tx = [w \in Workers |-> IdleTx]
    /\ result = [w \in Workers |-> "none"]
    /\ MetricsAtRest
    /\ SchedAtRest
    /\ DnsAtRest
    /\ Route53AtRest
    /\ OthersAtRest

EngineUnchanged ==
    UNCHANGED <<now, policies, tick, avail, lastErr, billingVars, opsVars, usageVars,
                migrationVars, controlVars, coverageVars, fetchVars, targetVars, loop>>

\* where evaluatePolicy goes after GetActiveStormForPolicy (lines 87-93 and
\* 117-126): to GetLastStormEvent, to MarkStormEventResolved, or it returns
afterActive(a, p, active) ==
    IF a < p.threshold_avail
    THEN IF hasActive(active) THEN "idle" ELSE "last"
    ELSE IF hasActive(active) THEN "resolve" ELSE "idle"

\* evaluatePolicy of engine e, lines 72-85: Availability is read, then
\* GetActiveStormForPolicy, then the clock
EngineReadsActive(e) ==
    /\ eng[e].pc = "idle"
    /\ eng[e].runs < MaxEvaluations
    /\ \E i \in Indices(policies) :
          LET p == policies[i]
              active == GetActiveStormForPolicy(events, p.service_id, p.kind)
          IN eng' = [eng EXCEPT ![e] = [pc |-> afterActive(avail, p, active), pol |-> i,
                                        t |-> now, active |-> active,
                                        runs |-> eng[e].runs + 1]]
    /\ UNCHANGED events
    /\ EngineUnchanged

\* lines 95-107: GetLastStormEvent and the cooldown test
EngineReadsLast(e) ==
    /\ eng[e].pc = "last"
    /\ LET p == policies[eng[e].pol]
           last == GetLastStormEvent(events, p.service_id, p.kind)
       IN eng' = [eng EXCEPT ![e].pc =
                     IF cooldownBlocks(last, eng[e].t, p.cooldown_seconds)
                     THEN "idle" ELSE "insert"]
    /\ UNCHANGED events
    /\ EngineUnchanged

\* lines 109-114: InsertStormEvent, started_at being NOW() of the store
EngineInserts(e) ==
    /\ eng[e].pc = "insert"
    /\ LET p == policies[eng[e].pol]
       IN events' = InsertStormEvent(events, p.service_id, p.kind, now)
    /\ eng' = [eng EXCEPT ![e].pc = "idle"]
    /\ EngineUnchanged

\* lines 117-124: MarkStormEventResolved of the event read, with the clock
\* read at line 84
EngineResolves(e) ==
    /\ eng[e].pc = "resolve"
    /\ events' = MarkStormEventResolved(events, eng[e].active.row.id, ValidTime(eng[e].t))
    /\ eng' = [eng EXCEPT ![e].pc = "idle"]
    /\ EngineUnchanged

EnginesNext ==
    \/ Advance
    \/ Probe
    \/ \E e \in Engines : EngineReadsActive(e)
    \/ \E e \in Engines : EngineReadsLast(e)
    \/ \E e \in Engines : EngineInserts(e)
    \/ \E e \in Engines : EngineResolves(e)

EnginesSpec == EnginesInit /\ [][EnginesNext]_vars

\* the events of (serviceID, kind) with ended_at NULL
OpenEvents(serviceID, kind) ==
    {i \in Indices(events) : /\ events[i].service_id = serviceID
                             /\ events[i].kind = kind
                             /\ ~events[i].ended_at.valid}

\* C35: with two storm engines evaluating the same policy against the same
\* store, their read-active, read-last and insert steps interleaved in any
\* order, there is at most one event with ended_at NULL for a (service_id, kind)
C35_OneOpenEventUnderTwoEngines ==
    \A s \in Services, k \in Kinds : Cardinality(OpenEvents(s, k)) <= 1

\* ---------------------------------------------------------------- storm engine: policies changed while it runs
\* the rows of pols without row i
RemoveAt(pols, i) == [k \in 1..(Len(pols) - 1) |-> IF k < i THEN pols[k] ELSE pols[k + 1]]

\* DELETE FROM storm_policies WHERE id = $1 AND service_id = $2
DeleteStormPolicy(pols, i) == RemoveAt(pols, i)

\* UPDATE storm_policies SET kind = $3, ... WHERE id = $1 AND service_id = $2
UpdateStormPolicy(pols, i, kind) == [pols EXCEPT ![i].kind = kind]

\* an evaluation the running tick has still to make, with the policy row that
\* GetStormPoliciesForService returned
RowItem(s, i, p) == [svc |-> s, pol |-> i, row |-> p]

\* service 1 with one policy, or with one of each kind
ChangedPolicies ==
    { << Policy(1, "failover", 90, 60, 0, 3) >>,
      << Policy(1, "failover", 90, 60, 1, 3), Policy(1, "latency", 50, 60, 0, 2) >> }

PolicyInit ==
    /\ now = 0
    /\ policies \in ChangedPolicies
    /\ events = <<>>
    /\ tick = <<>>
    /\ avail \in Avails
    /\ lastErr = "none"
    /\ cfg = NewEngine(DefaultConfig)
    /\ snapshots = <<>>
    /\ invoices = <<>>
    /\ lineItems = <<>>
    /\ invoiceSeq = 0
    /\ tx = [w \in Workers |-> IdleTx]
    /\ result = [w \in Workers |-> "none"]
    /\ MetricsAtRest
    /\ SchedAtRest
    /\ DnsAtRest
    /\ Route53AtRest
    /\ OthersAtRest

\* Engine.Tick, the loop body for one service up to the inner loop (lines
\* 56-61, the query succeeding): the tick keeps the rows it has read
TickReadsPolicies ==
    /\ tick # <<>>
    /\ Head(tick).pol = 0
    /\ LET s == Head(tick).svc
           ids == GetStormPoliciesForService(policies, s)
       IN tick' = [k \in Indices(ids) |-> RowItem(s, ids[k], policies[ids[k]])] \o Tail(tick)
    /\ UNCHANGED <<now, policies, events, avail, lastErr, billingVars, extVars>>

\* one evaluatePolicy call of the running tick, every statement succeeding
TickEvaluatesPolicy ==
    /\ tick # <<>>
    /\ Head(tick).pol > 0
    /\ LET p == Head(tick).row
           ops == evaluatePolicy(events, Head(tick).svc, p, avail, now, "none")
           evs == ApplyStormWrites(events, ops, now, "none")
       IN /\ Len(evs) <= MaxEvents
          /\ events' = evs
    /\ tick' = Tail(tick)
    /\ UNCHANGED <<now, policies, avail, lastErr, billingVars, extVars>>

\* handleDeleteStormPolicy, the policy found
HandleDeleteStormPolicy ==
    /\ \E i \in Indices(policies) : policies' = DeleteStormPolicy(policies, i)
    /\ UNCHANGED <<now, events, tick, avail, lastErr, billingVars, extVars>>

\* handleUpdateStormPolicy with a patch that changes the kind
HandleUpdateStormPolicy ==
    /\ \E i \in Indices(policies) :
          \E kind \in Kinds \ {policies[i].kind} :
             policies' = UpdateStormPolicy(policies, i, kind)
    /\ UNCHANGED <<now, events, tick, avail, lastErr, billingVars, extVars>>

PolicyNext ==
    \/ Advance
    \/ Probe
    \/ TickStart
    \/ TickReadsPolicies
    \/ TickEvaluatesPolicy
    \/ HandleDeleteStormPolicy
    \/ HandleUpdateStormPolicy

PolicySpec == PolicyInit /\ [][PolicyNext]_vars

\* the prober calls Tick on every tick of its ticker, and a Tick whose
\* statements succeed runs to its end
PolicyFairness ==
    /\ WF_vars(TickStart)
    /\ WF_vars(TickReadsPolicies)
    /\ WF_vars(TickEvaluatesPolicy)

PolicyLiveSpec == PolicySpec /\ PolicyFairness

\* availability is at or above the threshold of every policy service s has
Recovered(s) ==
    \A i \in Indices(policies) :
        policies[i].service_id = s => avail >= policies[i].threshold_avail

\* service s has no open event and DesiredRouting returns (100, 0)
Calm(s) ==
    /\ GetActiveStormsForService(events, s) = <<>>
    /\ DesiredRouting(events, s) = Weights(100, 0)

\* C36: if from some tick onward availability stays at or above the threshold
\* of every policy an active service currently has, then eventually the
\* service has no open storm event and DesiredRouting returns (100, 0), also
\* when a policy is deleted or its kind changed while an event it opened is open
C36_RecoveredServiceBecomesCalm ==
    \A s \in Services : <>[]Recovered(s) => <>[]Calm(s)

\* ---------------------------------------------------------------- storm claims
OpenIds(evs, s, k) ==
    {i \in Indices(evs) : evs[i].service_id = s /\ evs[i].kind = k /\ ~evs[i].ended_at.valid}

EventIds(evs, s, k) ==
    {i \in Indices(evs) : evs[i].service_id = s /\ evs[i].kind = k}

\* the next step of the running tick is an evaluatePolicy call
Evaluating == tick # <<>> /\ Head(tick).pol > 0

\* a step of the engine that is one evaluatePolicy call, on policy Head(tick)
EvalStep == Evaluating /\ tick' = Tail(tick)

\* the policy the pending evaluatePolicy call is about
Cur == policies[Head(tick).pol]

BelowThreshold == Evaluating /\ avail < Cur.threshold_avail
AtOrAboveThreshold == Evaluating /\ avail >= Cur.threshold_avail

\* the most recent event of the pending policy's (service, kind) is inside the
\* policy's cooldown: ended less than cooldown ago, or open and started less
\* than cooldown ago
InsideCooldown ==
    /\ Evaluating
    /\ Cur.cooldown_seconds > 0
    /\ EventIds(events, Cur.service_id, Cur.kind) # {}
    /\ LET m == events[LatestOf(events, EventIds(events, Cur.service_id, Cur.kind))]
       IN IF m.ended_at.valid
          THEN now - m.ended_at.time < Cur.cooldown_seconds
          ELSE now - m.started_at < Cur.cooldown_seconds

\* C1: in every state reached by ticks of one engine, each (service_id, kind)
\* has at most one storm event with ended_at NULL.
C1_AtMostOneOpenEvent ==
    \A s \in Services, k \in Kinds : Cardinality(OpenIds(events, s, k)) <= 1

\* C1 witness: a (service, kind) was opened, closed and opened again
C1_Witness ==
    \E s \in Services, k \in Kinds :
        /\ Cardinality(OpenIds(events, s, k)) = 1
        /\ Cardinality(EventIds(events, s, k)) = 2

\* an event of (s, k) that is open before the step and closed after it
ClosedInStep(s, k) == OpenIds(events, s, k) \ OpenIds(events', s, k)

\* some policy of service s with kind k has availability below its threshold
StillRequired(s, k) ==
    \E j \in Indices(policies) : /\ policies[j].service_id = s
                                 /\ policies[j].kind = k
                                 /\ avail < policies[j].threshold_avail

\* C37: when a service has several policies, an open event of (service, kind)
\* is closed only if no policy of that service with that kind has availability
\* below its threshold: one policy never closes an event that another policy
\* of the same kind with a higher threshold still requires
C37_ClosedOnlyWhenNoPolicyRequiresIt ==
    [][ \A s \in Services, k \in Kinds :
            ClosedInStep(s, k) # {} => ~StillRequired(s, k) ]_vars

\* C7: an evaluation with availability below the threshold, no open event,
\* cooldown_seconds > 0 and the most recent event inside the cooldown inserts
\* no storm event.
C7_CooldownSuppressesOpening ==
    [][ (EvalStep /\ BelowThreshold /\ InsideCooldown
            /\ OpenIds(events, Cur.service_id, Cur.kind) = {})
        => /\ Len(events') = Len(events)
           /\ evaluatePolicy(events, Cur.service_id, Cur, avail, now, "none") = <<>> ]_vars

\* C7 witness: such an evaluation is about to run
C7_Witness ==
    /\ BelowThreshold
    /\ InsideCooldown
    /\ OpenIds(events, Cur.service_id, Cur.kind) = {}

\* C8: an evaluation with availability at or above the threshold and an open
\* event issues exactly one MarkStormEventResolved, on that event's id with
\* ended_at = now, and inserts nothing.
C8_ResolveIssuedOnce ==
    [][ (EvalStep /\ AtOrAboveThreshold
            /\ OpenIds(events, Cur.service_id, Cur.kind) # {})
        => \E i \in OpenIds(events, Cur.service_id, Cur.kind) :
              /\ \A f \in {"none", "resolve"} :
                    LET ops == evaluatePolicy(events, Cur.service_id, Cur, avail, now, f)
                    IN /\ Len(ops) = 1
                       /\ ops[1].op = "resolve"
                       /\ ops[1].id = events[i].id
                       /\ ops[1].ended_at = ValidTime(now)
              /\ Len(events') = Len(events)
              /\ lastErr' = "none" =>
                    events' = [events EXCEPT ![i].ended_at = ValidTime(now)] ]_vars

\* C8 witness: an evaluation at or above the threshold with an open event
C8_Witness ==
    /\ AtOrAboveThreshold
    /\ OpenIds(events, Cur.service_id, Cur.kind) # {}

\* C9: an evaluation below the threshold with no event at all for the
\* (service, kind) inserts exactly one event, open, for it; an evaluation below
\* the threshold that finds the event open inserts nothing and updates nothing.
C9_OpenOnceThenIdempotent ==
    [][ /\ (EvalStep /\ BelowThreshold /\ lastErr' = "none"
               /\ EventIds(events, Cur.service_id, Cur.kind) = {})
           => /\ Len(events') = Len(events) + 1
              /\ SubSeq(events', 1, Len(events)) = events
              /\ OpenIds(events', Cur.service_id, Cur.kind) = {Len(events')}
        /\ (EvalStep /\ BelowThreshold
               /\ OpenIds(events, Cur.service_id, Cur.kind) # {})
           => /\ events' = events
              /\ \A f \in StormFailures \ {"avail", "active"} :
                    evaluatePolicy(events, Cur.service_id, Cur, avail, now, f) = <<>> ]_vars

\* C9 witness: the single event of a (service, kind) is open and that policy
\* is evaluated below its threshold again
C9_Witness ==
    /\ BelowThreshold
    /\ Cardinality(OpenIds(events, Cur.service_id, Cur.kind)) = 1
    /\ Cardinality(EventIds(events, Cur.service_id, Cur.kind)) = 1

\* C10: an evaluation at or above the threshold closes the open event of its
\* (service, kind) whatever the cooldown is and however recent the event is.
C10_CooldownNeverBlocksClosing ==
    [][ (EvalStep /\ AtOrAboveThreshold /\ lastErr' = "none")
        => \A i \in OpenIds(events, Cur.service_id, Cur.kind) :
              /\ events'[i].ended_at.valid
              /\ OpenIds(events', Cur.service_id, Cur.kind) = {} ]_vars

\* C10 witness: the open event started less than cooldown_seconds ago when the
\* evaluation at or above the threshold runs
C10_Witness ==
    /\ AtOrAboveThreshold
    /\ InsideCooldown
    /\ OpenIds(events, Cur.service_id, Cur.kind) # {}

\* what is left of the running tick after its head is still in tick'
RestOfTickKept ==
    /\ Len(tick') >= Len(tick) - 1
    /\ SubSeq(tick', Len(tick') - Len(tick) + 2, Len(tick')) = Tail(tick)

\* C11: a step of a running tick, whether the policy read of a service or an
\* evaluatePolicy call, failing or not, leaves every other service and every
\* other policy of the tick still to be evaluated in that tick.
C11_TickIsolatesErrors ==
    [][ (tick # <<>> /\ tick' # tick) => RestOfTickKept ]_vars

\* ---------------------------------------------------------------- billing claims
\* the line items that bill snapshot snap
LineItemsOf(items, snap) ==
    {k \in Indices(items) : /\ items[k].service_id = snap.service_id
                            /\ items[k].window_start = snap.window_start
                            /\ items[k].window_end = snap.window_end}

\* worker w takes a step from phase p to phase q
Moves(w, p, q) == tx[w].phase = p /\ tx'[w].phase = q

\* C2: once a run that included a snapshot has committed, the snapshot has the
\* invoice's id as its invoice_id and keeps it, no later
\* LockUnbilledUsageSnapshots returns it, and it is a line item of at most one
\* invoice.
C2_BilledExactlyOnce ==
    [][ /\ \A i \in Indices(snapshots') :
              /\ \A k \in LineItemsOf(lineItems', snapshots'[i]) :
                    /\ snapshots'[i].invoice_id.valid
                    /\ snapshots'[i].invoice_id.int64 = lineItems'[k].invoice_id
              /\ Cardinality(LineItemsOf(lineItems', snapshots'[i])) <= 1
              /\ snapshots[i].invoice_id.valid
                    => snapshots'[i].invoice_id = snapshots[i].invoice_id
        /\ \A w \in Workers :
              Moves(w, "idle", "locked") =>
                 \A i \in Range(tx'[w].snaps) :
                    /\ ~snapshots[i].invoice_id.valid
                    /\ LineItemsOf(lineItems, snapshots[i]) = {} ]_vars

\* C2 witness: a later run has locked a snapshot of a service another snapshot
\* of which is already invoiced, and has not got the invoiced one
C2_Witness ==
    \E w \in Workers, i, j \in Indices(snapshots) :
        /\ snapshots[i].invoice_id.valid
        /\ LineItemsOf(lineItems, snapshots[i]) # {}
        /\ tx[w].phase = "locked"
        /\ j \in Range(tx[w].snaps)
        /\ i \notin Range(tx[w].snaps)
        /\ snapshots[j].service_id = snapshots[i].service_id

\* C3: a run that returns an error leaves invoices, line items and snapshot
\* flags as they were: none of its writes is persisted, and no row written in
\* an open transaction is in the committed tables.
C3_FailedRunPersistsNothing ==
    [][ /\ \A w \in Workers :
              (/\ result'[w] = "error"
               /\ (tx'[w] # tx[w] \/ result'[w] # result[w]))
              => /\ tx'[w] = IdleTx
                 /\ invoices' = invoices
                 /\ lineItems' = lineItems
                 /\ snapshots' = snapshots
                 /\ \A k \in Indices(tx[w].writes.invoices) :
                       \A n \in Indices(invoices') :
                          invoices'[n].id # tx[w].writes.invoices[k].id
        /\ \A w \in Workers :
              \A k \in Indices(tx'[w].writes.invoices) :
                 /\ \A n \in Indices(invoices') :
                       invoices'[n].id # tx'[w].writes.invoices[k].id
                 /\ \A i \in Indices(snapshots') :
                       snapshots'[i].invoice_id.valid =>
                          snapshots'[i].invoice_id.int64 # tx'[w].writes.invoices[k].id ]_vars

\* C3 witness: a run failed after it had inserted an invoice (the id sequence
\* moved), and no invoice, line item or flag is in the store
C3_Witness ==
    /\ \E w \in Workers : result[w] = "error"
    /\ \A w \in Workers : tx[w].phase = "idle"
    /\ invoiceSeq > 0
    /\ invoices = <<>>
    /\ lineItems = <<>>
    /\ \A i \in Indices(snapshots) : ~snapshots[i].invoice_id.valid

RECURSIVE SumOver(_, _, _)
SumOver(items, S, field) ==
    IF S = {} THEN 0
    ELSE LET k == CHOOSE x \in S : TRUE
         IN items[k][field] + SumOver(items, S \ {k}, field)

LinesOfInvoice(items, id) == {k \in Indices(items) : items[k].invoice_id = id}

\* C4: every persisted invoice has total_cents = subtotal_cents -
\* discount_cents, subtotal_cents the sum of its line items' amount_cents and
\* discount_cents the sum of their discount_cents.
C4_InvoiceArithmetic ==
    \A n \in Indices(invoices) :
        LET inv == invoices[n]
            mine == LinesOfInvoice(lineItems, inv.id)
        IN /\ inv.total_cents = inv.subtotal_cents - inv.discount_cents
           /\ inv.subtotal_cents = SumOver(lineItems, mine, "amount_cents")
           /\ inv.discount_cents = SumOver(lineItems, mine, "discount_cents")

\* C4 witness: a persisted invoice with two line items and a discount
C4_Witness ==
    \E n \in Indices(invoices) :
        /\ Cardinality(LinesOfInvoice(lineItems, invoices[n].id)) = 2
        /\ invoices[n].discount_cents > 0
        /\ invoices[n].total_cents > 0

\* every line a run has computed: built, written or committed
ComputedLines ==
    Range(lineItems)
    \cup UNION {Range(tx[w].writes.lineItems) : w \in Workers}
    \cup UNION {UNION {Range(tx[w].builds[c].items) : c \in DOMAIN tx[w].builds} :
                   w \in Workers}

\* C5: every computed line has 0 <= coverage <= max_coverage_factor of its
\* service and discount <= line subtotal.
C5_CoverageAndDiscountClamped ==
    \A line \in ComputedLines :
        LET cap == Frac(GetMaxCoverageFactorForService(policies, line.service_id),
                        CoverageScale)
        IN /\ ~FracLess(line.coverage_factor, Frac(0, 1))
           /\ ~FracLess(cap, line.coverage_factor)
           /\ line.discount_cents <= line.amount_cents

\* C5 witness: a line at full coverage whose discount was cut down to the
\* line subtotal
C5_Witness ==
    \E line \in ComputedLines :
        /\ FracEq(line.coverage_factor,
                  Frac(GetMaxCoverageFactorForService(policies, line.service_id),
                       CoverageScale))
        /\ line.discount_cents = line.amount_cents
        /\ line.amount_cents > 0
        /\ discountFor_unclamped(chargeForBytes(line.backup_bytes, cfg.RateCentsPerGB),
                                 cfg.DiscountRate, line.coverage_factor,
                                 line.amount_cents) > line.amount_cents

\* C6: under every interleaving of two workers the sets of snapshots their
\* transactions hold are disjoint, no snapshot is flagged by two transactions
\* and no snapshot is a line item of two invoices.
C6_WorkersClaimDisjointSets ==
    /\ \A v, w \in Workers :
          v # w =>
             /\ LockedSnapshots(tx[v]) \cap LockedSnapshots(tx[w]) = {}
             /\ {m.id : m \in Range(tx[v].writes.marks)}
                   \cap {m.id : m \in Range(tx[w].writes.marks)} = {}
    /\ \A i \in Indices(snapshots) :
          Cardinality({lineItems[k].invoice_id : k \in LineItemsOf(lineItems, snapshots[i])}) <= 1

\* C6 witness: both workers hold snapshots at once, and one of them was
\* refused a billable snapshot the other's transaction keeps locked
C6_Witness ==
    \E v, w \in Workers :
        /\ v # w
        /\ LockedSnapshots(tx[v]) # {}
        /\ LockedSnapshots(tx[w]) # {}
        /\ \E i \in Indices(snapshots) :
              /\ ~snapshots[i].invoice_id.valid
              /\ snapshots[i].window_end <= now
              /\ i \notin LockedSnapshots(tx[v]) \cup LockedSnapshots(tx[w])

\* the worked example: the only snapshot has 2^30 primary and 2^30 backup
\* bytes over the window [0, 2), the rate is 12 cents per GB, the discount
\* rate 0.5, the only storm of the service lasts from 1 to 2, and the
\* service's max_coverage_factor is 1.5
WorkedExample ==
    /\ Len(snapshots) = 1
    /\ snapshots[1].service_id = 1
    /\ snapshots[1].window_start = 0 /\ snapshots[1].window_end = 2
    /\ snapshots[1].primary_bytes = 1073741824 /\ snapshots[1].backup_bytes = 1073741824
    /\ cfg.RateCentsPerGB = 12
    /\ cfg.DiscountRate = 1
    /\ Len(events) = 1
    /\ events[1].service_id = 1
    /\ events[1].started_at = 1
    /\ events[1].ended_at = ValidTime(2)
    /\ GetMaxCoverageFactorForService(policies, 1) = 3

\* C30: in the worked example every line a run computes has subtotal 24,
\* coverage 0.75 and discount 5, so its total is 19; a persisted invoice has
\* these as its subtotal, discount and total, and the snapshot then carries
\* the invoice's id
C30_WorkedExample ==
    WorkedExample =>
       /\ \A line \in ComputedLines :
             /\ line.amount_cents = 24
             /\ line.coverage_factor.num * 4 = 3 * line.coverage_factor.den
             /\ line.discount_cents = 5
             /\ line.amount_cents - line.discount_cents = 19
       /\ \A n \in Indices(invoices) :
             /\ invoices[n].subtotal_cents = 24
             /\ invoices[n].discount_cents = 5
             /\ invoices[n].total_cents = 19
             /\ snapshots[1].invoice_id = [valid |-> TRUE, int64 |-> invoices[n].id]
             /\ \E k \in Indices(lineItems) : lineItems[k].invoice_id = invoices[n].id
       /\ snapshots[1].invoice_id.valid => invoices # <<>>

\* the run of the worked example has committed its invoice
C30_Witness ==
    /\ WorkedExample
    /\ Len(invoices) = 1
    /\ Len(lineItems) = 1
    /\ snapshots[1].invoice_id.valid
    /\ \E w \in Workers : result[w] = "ok"

\* the run of worker w commits in this step
Commits(w) == tx[w].phase = "writing" /\ tx'[w].phase = "idle" /\ result'[w] = "ok"

Due(i) == i <= Len(snapshots) /\ snapshots[i].window_end <= now

Invoiced(i) == i <= Len(snapshots) /\ snapshots[i].invoice_id.valid

\* C39: with a single billing worker whose runs keep succeeding, every usage
\* snapshot whose window_end is at or before now is eventually invoiced,
\* whenever it was ingested
C39_DueSnapshotEventuallyInvoiced ==
    \A i \in 1..MaxLateSnapshots : Due(i) ~> Invoiced(i)

\* ---------------------------------------------------------------- metrics claims
\* a step that is an Availability call
CallStep == lastCall'.n # lastCall.n

\* the samples of the service the call finds inside its window, each as
\* <<target, index>>
InWindow ==
    LET byTarget == Get(metrics.samples, lastCall'.service)
        cutoff == now - lastCall'.window
    IN UNION {{<<tg, i>> : i \in {j \in Indices(byTarget[tg]) : byTarget[tg][j].t > cutoff}} :
                 tg \in DOMAIN byTarget}

InWindowOk ==
    {x \in InWindow : Get(metrics.samples, lastCall'.service)[x[1]][x[2]].ok}

\* the targets of the called service that have no sample inside the window
ExpiredTargets ==
    {tg \in DOMAIN Get(metrics.samples, lastCall'.service) :
        \A x \in InWindow : x[1] # tg}

\* C12: Availability returns okCount/totalCount pooled over all samples of the
\* service, whatever their target, with probed_at > now - window; a target
\* with no sample in the window contributes nothing.
C12_AvailabilityPooled ==
    [][ (CallStep /\ metrics.build = "targets" /\ InWindow # {})
        => FracEq(lastCall'.value,
                  Frac(Cardinality(InWindowOk), Cardinality(InWindow))) ]_vars

\* C12 witness: a call returned 1/2 from a good sample of one target and a bad
\* sample of another target of the same service
C12_Witness ==
    /\ lastCall.n > 0
    /\ metrics.build = "targets"
    /\ FracEq(lastCall.value, Frac(1, 2))
    /\ SampleCount(metrics) = 2
    /\ Cardinality(DOMAIN Get(metrics.samples, lastCall.service)) = 2
    /\ lastCall.evicted = {}

\* the call finds no sample of the service inside its window
NoneInWindow ==
    IF metrics.build = "targets" THEN InWindow = {}
    ELSE \A i \in Indices(Get(metrics.samples, lastCall'.service)) :
            Get(metrics.samples, lastCall'.service)[i].t <= now - lastCall'.window

\* what the constructor of the store configured: NewInMemoryMetrics 0,
\* NewInMemoryMetricsWithDefault its argument
ConfiguredEmpty(m) ==
    IF m.build = "targets" THEN m.emptyAvailability ELSE Frac(0, 1)

\* C13: a call for a service with no samples, or with samples all older than
\* the window, returns the configured empty availability: 0 for a store built
\* with NewInMemoryMetrics, the argument for NewInMemoryMetricsWithDefault.
C13_EmptyAvailabilityReturned ==
    [][ (CallStep /\ NoneInWindow) => lastCall'.value = ConfiguredEmpty(metrics) ]_vars

\* C14: a call removes every target of the service that has no sample inside
\* the window, removes the service's entry when all its targets are expired,
\* keeps the samples inside the window and leaves other services alone.
C14_ExpiredTargetsEvicted ==
    [][ (CallStep /\ metrics.build = "targets") =>
           LET sv == lastCall'.service
               cutoff == now - lastCall'.window
               before == Get(metrics.samples, sv)
               after == Get(metrics'.samples, sv)
               inside(q) == SelectSeq(q, LAMBDA x : x.t > cutoff)
           IN /\ \A tg \in ExpiredTargets : tg \notin DOMAIN after
              /\ \A tg \in DOMAIN before \ ExpiredTargets :
                    /\ tg \in DOMAIN after
                    /\ inside(after[tg]) = inside(before[tg])
              /\ (DOMAIN before # {} /\ ExpiredTargets = DOMAIN before)
                    => sv \notin DOMAIN metrics'.samples
              /\ \A other \in (DOMAIN metrics.samples) \ {sv} :
                    /\ other \in DOMAIN metrics'.samples
                    /\ metrics'.samples[other] = metrics.samples[other] ]_vars

\* C14 witness: a call evicted an expired target of a service and kept
\* another target of it, which has samples
C14_Witness ==
    /\ lastCall.n > 0
    /\ metrics.build = "targets"
    /\ lastCall.evicted # {}
    /\ lastCall.service \in DOMAIN metrics.samples
    /\ DOMAIN metrics.samples[lastCall.service] # {}
    /\ DOMAIN metrics.samples[lastCall.service] \cap lastCall.evicted = {}

\* what Availability(serviceID, window) returns on store m at time t
availabilityOf(m, serviceID, window, t) ==
    IF m.build = "targets"
    THEN Availability(m, serviceID, window, t).value
    ELSE AvailabilityLegacy(m, serviceID, window, t).value

\* the step is an Availability(sv, w) call
AvailabilityCalled(sv, w) ==
    /\ lastCall'.n = lastCall.n + 1
    /\ lastCall'.service = sv
    /\ lastCall'.window = w

\* C40: an Availability(service, w1) call does not change the result of a
\* later Availability(service, w2) call with a longer window w2 > w1: each
\* policy's availability is computed over all samples within its own window
\* (stated for the store with samples per target; the legacy store is not
\* needed to refute it)
C40_ShorterWindowLeavesLongerResult ==
    [][ \A sv \in Services, w1 \in Windows, w2 \in Windows, t \in 0..MaxMetricsTime :
            (metrics.build = "targets" /\ AvailabilityCalled(sv, w1) /\ w2 > w1 /\ t >= now)
            => availabilityOf(metrics', sv, w2, t) = availabilityOf(metrics, sv, w2, t) ]_vars

\* ---------------------------------------------------------------- scheduler claims
\* a step that is a reconcile pass
PassEnds == ~passLog.ran /\ passLog'.ran

\* the probe loops of a key whose cancel function has not been called
LiveLoops(ps, k) == {i \in DOMAIN ps : key(ps[i].target) = k /\ ~ps[i].cancelled}

\* C15: after a reconcile pass in which the service list and every domain
\* fetch succeeded, the keys of the loops map are the desired keys; each
\* desired key has exactly one loop that is not cancelled, the one it had
\* before the pass if it had one, and every loop of a key that is not desired
\* has been cancelled and removed.
C15_LoopsMatchDesired ==
    [][ (PassEnds /\ passLog'.failed = {}) =>
           /\ DOMAIN sched'.loops = passLog'.fetched
           /\ \A k \in passLog'.fetched : LiveLoops(procs', k) = {sched'.loops[k]}
           /\ \A k \in DOMAIN sched.loops \cap passLog'.fetched :
                 sched'.loops[k] = sched.loops[k]
           /\ \A k \in DOMAIN sched.loops \ passLog'.fetched :
                 /\ procs'[sched.loops[k]].cancelled
                 /\ LiveLoops(procs', k) = {} ]_vars

\* C15 witness: a pass with no failed fetch kept a running loop, started one
\* and cancelled one
C15_Witness ==
    /\ passLog.ran
    /\ passLog.failed = {}
    /\ DOMAIN passLog.atStart \cap passLog.fetched # {}
    /\ passLog.fetched \ DOMAIN passLog.atStart # {}
    /\ DOMAIN passLog.atStart \ passLog.fetched # {}

\* the keys of the loops map before the pass that belong to a service
KeysOf(serviceID) ==
    {k \in DOMAIN sched.loops : procs[sched.loops[k]].target.serviceID = serviceID}

\* C16: when GetServiceDomains fails for a service in a pass, every loop of
\* that service running before the pass is running after it, neither
\* cancelled nor dropped, and the loops of the other services are reconciled
\* as in any pass.
C16_FailedFetchPreservesLoops ==
    [][ PassEnds =>
           /\ \A s \in passLog'.failed : \A k \in KeysOf(s) :
                 /\ k \in DOMAIN sched'.loops
                 /\ sched'.loops[k] = sched.loops[k]
                 /\ ~procs'[sched.loops[k]].cancelled
           /\ \A k \in DOMAIN sched.loops \cup DOMAIN sched'.loops :
                 (\A s \in passLog'.failed : k \notin KeysOf(s))
                    => (k \in DOMAIN sched'.loops <=> k \in passLog'.fetched) ]_vars

\* C16 witness: the fetch of service 1 failed in a pass that began with a loop
\* of service 1 for a domain that is gone, and with loops of service 12,
\* which is no longer active; the first is kept, the others are stopped
C16_Witness ==
    /\ passLog.ran
    /\ passLog.failed = {1}
    /\ key(probeTarget(1, 11, <<"b">>)) \in DOMAIN passLog.atStart
    /\ 11 \notin schedDb.domains
    /\ key(probeTarget(1, 11, <<"b">>)) \in DOMAIN sched.loops
    /\ key(probeTarget(12, 12, <<"c">>)) \in DOMAIN passLog.atStart
    /\ key(probeTarget(12, 12, <<"c">>)) \notin DOMAIN sched.loops

\* C17: when Run has returned after the root context was cancelled, every
\* probe loop has ended and none records a sample any more.
C17_RunReturnsAfterLoops ==
    sched.pc = "returned" =>
        /\ \A i \in DOMAIN procs : procs[i].pc = "done"
        /\ ~lateProbe

\* C38: once a probe loop has been cancelled it records no further sample;
\* a probe in flight at the cancellation adds no failed sample to the
\* availability of the service
C38_CancelledLoopRecordsNothing ==
    [][ loop.cancelled => metrics' = metrics ]_vars

\* ---------------------------------------------------------------- routing claims
\* the service has a storm event, of whatever kind, with ended_at NULL
HasOpenStorm(serviceID) ==
    \E i \in Indices(events) :
        events[i].service_id = serviceID /\ ~events[i].ended_at.valid

\* C18: DesiredRouting of a service is (0, 100) if and only if a storm event
\* of the service, of any kind, has ended_at NULL, and (100, 0) otherwise;
\* the two weights sum to 100.
C18_DesiredRoutingFollowsOpenStorms ==
    \A id \in FullDb.services :
        LET w == DesiredRouting(events, id)
        IN /\ (w = Weights(0, 100)) <=> HasOpenStorm(id)
           /\ (w = Weights(100, 0)) <=> ~HasOpenStorm(id)
           /\ w.Primary + w.Backup = 100

\* C18 witness: service 1 has a closed storm and an open latency storm and
\* service 12 has none; the operator has asked for the routing of both
C18_Witness ==
    /\ Len(events) = 2
    /\ events[1].service_id = 1 /\ events[1].ended_at.valid
    /\ events[2].service_id = 1 /\ ~events[2].ended_at.valid
    /\ events[2].kind = "latency"
    /\ 1 \in DOMAIN dnsLog.weights /\ dnsLog.weights[1] = Weights(0, 100)
    /\ 12 \in DOMAIN dnsLog.weights /\ dnsLog.weights[12] = Weights(100, 0)

\* a step that ends a pass of the operator
DnsPassCompletes == dnsOp.pc \in {"pass", "calls", "waiting"} /\ dnsOp'.pc = "idle"

\* the calls of the pass for a domain name
CallsFor(calls, name) == {i \in Indices(calls) : calls[i].domain = name}

\* C19: at startup and at every tick, a pass whose reads all succeed calls
\* SetWeights exactly once for each domain of each active service, and for
\* no other domain, with the weights DesiredRouting returned for the service
\* in that pass; those are (0, 100) when the service has an open storm at the
\* time and (100, 0) when it has none.
C19_SetWeightsOncePerDomain ==
    [][ /\ (DnsPassCompletes /\ dnsLog'.readsOk) =>
              /\ DOMAIN dnsLog'.domains = dnsLog'.services
              /\ \A id \in dnsLog'.services : \A name \in dnsLog'.domains[id] :
                    /\ Cardinality(CallsFor(dnsCalls', name)) = 1
                    /\ \A i \in CallsFor(dnsCalls', name) :
                          Weights(dnsCalls'[i].primary, dnsCalls'[i].backup)
                             = dnsLog'.weights[id]
              /\ \A i \in Indices(dnsCalls') :
                    \E id \in dnsLog'.services : dnsCalls'[i].domain \in dnsLog'.domains[id]
        /\ \A id \in DOMAIN dnsLog'.weights \ DOMAIN dnsLog.weights :
              dnsLog'.weights[id] = IF HasOpenStorm(id) THEN Weights(0, 100)
                                    ELSE Weights(100, 0) ]_vars

\* C19 witness: a pass with no failed read has ended; it called SetWeights
\* for the two domains of service 1, which has an open storm, with (0, 100)
\* and for the domain of service 12 with (100, 0)
C19_Witness ==
    /\ dnsOp.pc = "idle"
    /\ dnsLog.readsOk
    /\ HasOpenStorm(1)
    /\ dnsCalls = <<[domain |-> <<"a">>, primary |-> 0, backup |-> 100],
                    [domain |-> <<"b">>, primary |-> 0, backup |-> 100],
                    [domain |-> <<"c">>, primary |-> 100, backup |-> 0]>>

\* ---------------------------------------------------------------- Route53 claims
\* the attempts SetWeights makes at most: the configured number, 3 when that
\* is zero or less
ConfiguredAttempts == IF r53.config <= 0 THEN 3 ELSE r53.config

\* C20: a SetWeights call for a domain that is not blank makes attempts until
\* one succeeds or max_attempts have been made (3 when the configured number
\* is zero or less); it returns nil at the first success and makes no attempt
\* after it, and returns an error when every attempt has failed.
C20_RetriesUntilSuccess ==
    (r53.call.pc = "returned" /\ ~IsBlank(r53.call.domain)) =>
        LET made == r53.call.outcomes
        IN /\ Len(made) >= 1
           /\ Len(made) <= ConfiguredAttempts
           /\ \A i \in 1..(Len(made) - 1) : made[i] = "err"
           /\ (r53.call.ret = "nil") <=> (made[Len(made)] = "nil")
           /\ (r53.call.ret = "err") <=>
                 (Len(made) = ConfiguredAttempts /\ made[Len(made)] = "err")

\* C20 witness: with max_attempts 2 the first attempt failed and the second
\* succeeded: two attempts and nil
C20_Witness ==
    /\ r53.config = 2
    /\ r53.call.pc = "returned"
    /\ r53.call.outcomes = <<"err", "nil">>
    /\ r53.call.ret = "nil"

\* a SetWeights call on a domain that is not blank has returned an error
SetWeightsFailed ==
    /\ r53.call.pc = "returned"
    /\ r53.call.ret = "err"
    /\ ~IsBlank(r53.call.domain)

\* C21: when every one of the max_attempts attempts of SetWeights fails,
\* SetWeights returns an error carrying the error of the last attempt after
\* exactly max_attempts attempts; the reconcile pass logs that error and goes
\* on with the domains left of the service and the services left of the
\* pass, so that a pass whose reads succeed calls SetWeights for every domain
\* of every service.
C21_ExhaustedRetriesLoggedPassGoesOn ==
    [][ /\ SetWeightsFailed' =>
              /\ Len(r53'.call.outcomes) = r53'.provider.maxAttempts
              /\ \A i \in Indices(r53'.call.outcomes) : r53'.call.outcomes[i] = "err"
              /\ Len(r53'.call.errs) = r53'.provider.maxAttempts
              /\ r53'.call.lastErr = r53'.call.errs[r53'.provider.maxAttempts]
        /\ (dnsOp.pc = "waiting" /\ dnsOp'.pc # "waiting" /\ SetWeightsFailed) =>
              /\ dnsLog'.setErrors =
                    Append(dnsLog.setErrors, [domain |-> Head(dnsOp.pending).domain,
                                              err |-> r53.call.lastErr])
              /\ dnsOp'.todo = dnsOp.todo
              /\ dnsOp'.pending = Tail(dnsOp.pending)
              /\ dnsOp'.pc = IF dnsOp'.pending # <<>> THEN "calls"
                             ELSE IF dnsOp'.todo # <<>> THEN "pass" ELSE "idle"
        /\ (DnsPassCompletes /\ dnsLog'.readsOk) =>
              \A id \in dnsLog'.services : \A name \in dnsLog'.domains[id] :
                 Cardinality(CallsFor(dnsCalls', name)) = 1 ]_vars

\* C21 witness: a pass of the operator with the Route53 provider has ended;
\* the three attempts for a failed, the last at the change of the record
\* sets, after a failed listing in the first; the calls for b and c failed
\* too, and all three calls were made and their errors logged
C21_Witness ==
    /\ dnsProv.name = "route53"
    /\ dnsOp.pc = "idle"
    /\ dnsLog.readsOk
    /\ Len(dnsCalls) = 3
    /\ Len(dnsLog.setErrors) = 3
    /\ dnsLog.setErrors[1] = [domain |-> <<"a">>, err |-> "change record sets"]
    /\ dnsLog.setErrors[2].domain = <<"b">>
    /\ dnsLog.setErrors[3] = [domain |-> <<"c">>, err |-> "no hosted zone"]
    /\ r53.call.errs = <<"list hosted zones", "list hosted zones", "no hosted zone">>

\* the call that is returning nil has the arguments of the call before it,
\* which returned nil too
SecondOfTwoCalls ==
    /\ r53.call.pc = "loop"
    /\ r53'.call.pc = "returned"
    /\ r53'.call.ret = "nil"
    /\ r53.prev.ret = "nil"
    /\ r53.prev.domain = r53.call.domain
    /\ r53.prev.weights = r53.call.weights

\* the record sets of the zone with the weights of the pair of a replaced
ZoneRecordsWith(primary, backup) ==
    [i \in Indices(ZoneRecords) |->
        CASE i = 2 -> [ZoneRecords[i] EXCEPT !.Weight = Int64(primary)]
          [] i = 3 -> [ZoneRecords[i] EXCEPT !.Weight = Int64(backup)]
          [] OTHER -> ZoneRecords[i]]

\* C22: of two SetWeights(domain, p, b) calls in succession that both return
\* nil, with no other change to the records in between, the second leaves
\* the record sets as the first left them: primary weight p, backup weight b,
\* every other field and every other record set as before; each call submits
\* a change batch, two in all when both succeed at their first attempt.
C22_SetWeightsIdempotent ==
    [][ SecondOfTwoCalls =>
           /\ r53'.records = r53.records
           /\ r53'.records = ZoneRecordsWith(r53.call.weights.Primary,
                                             r53.call.weights.Backup)
           /\ r53.prev.batches >= 1
           /\ Len(r53'.call.batches) >= 1
           /\ (r53.prev.attempts = 1 /\ Len(r53'.call.outcomes) = 1) =>
                 r53.prev.batches + Len(r53'.call.batches) = 2 ]_vars

\* C22 witness: SetWeights(a, 50, 10) returned nil at its first attempt
\* twice in succession, and the pair of a has the weights 50 and 10
C22_Witness ==
    /\ r53.call.pc = "returned"
    /\ r53.call.ret = "nil"
    /\ r53.call.outcomes = <<"nil">>
    /\ r53.call.domain = <<"a">>
    /\ r53.call.weights = Weights(50, 10)
    /\ r53.prev = [domain |-> <<"a">>, weights |-> Weights(50, 10), ret |-> "nil",
                   attempts |-> 1, batches |-> 1]
    /\ r53.records[2].Weight = Int64(50)
    /\ r53.records[3].Weight = Int64(10)

\* an attempt of the current call succeeds in this step
AttemptSucceeds == r53.call.pc = "loop" /\ r53'.call.pc = "returned" /\ r53'.call.ret = "nil"

\* the change is an UPSERT of a copy of a record set of the zone whose set
\* identifier is the given one, with only Weight replaced by the given value
UpsertsCopy(change, records, setIdentifier, weight) ==
    /\ change.Action = "UPSERT"
    /\ ToLower(change.ResourceRecordSet.SetIdentifier) = setIdentifier
    /\ change.ResourceRecordSet.Weight = Int64(weight)
    /\ \E i \in Indices(records) :
          /\ records[i].Weight.valid
          /\ change.ResourceRecordSet = [records[i] EXCEPT !.Weight = Int64(weight)]

\* C23: each successful SetWeights attempt submits exactly one change batch
\* holding two UPSERT changes, first the record set whose SetIdentifier is
\* primary, then the one whose SetIdentifier is backup, each a copy of the
\* existing record set in which only Weight is replaced by the requested
\* value (name, type, TTL, SetIdentifier and resource records as they were).
C23_OneBatchTwoUpserts ==
    [][ AttemptSucceeds =>
           /\ Len(r53'.call.batches) = Len(r53.call.batches) + 1
           /\ SubSeq(r53'.call.batches, 1, Len(r53.call.batches)) = r53.call.batches
           /\ LET batch == r53'.call.batches[Len(r53'.call.batches)]
              IN /\ Len(batch.Changes) = 2
                 /\ UpsertsCopy(batch.Changes[1], r53.records, "primary",
                                r53.call.weights.Primary)
                 /\ UpsertsCopy(batch.Changes[2], r53.records, "backup",
                                r53.call.weights.Backup) ]_vars

\* C23 witness: SetWeights(a, 0, 100) succeeded at its first attempt with
\* one batch: the primary record set of a with weight 0, then the backup
\* record set with weight 100
C23_Witness ==
    /\ r53.call.pc = "returned"
    /\ r53.call.ret = "nil"
    /\ r53.call.weights = Weights(0, 100)
    /\ r53.call.batches =
          <<[HostedZoneId |-> "Z123",
             Changes |-> <<[Action |-> "UPSERT",
                            ResourceRecordSet |->
                               ResourceRecordSet(<<"a", ".">>, "CNAME", "Primary",
                                                 Int64(0), 60, <<"p.net.">>)],
                           [Action |-> "UPSERT",
                            ResourceRecordSet |->
                               ResourceRecordSet(<<"a", ".">>, "CNAME", "backup",
                                                 Int64(100), 60, <<"b.net.">>)]>>]>>

\* the operator runs with the noop provider
RunsNoop == dnsProv.name = "noop"

\* a region is configured and the Route53 provider could not be built
Route53InitFailed == dnsProv.region # "" /\ dnsProv.name = "noop"

\* C24 as the specification states it: with no provider configured and with
\* a failed Route53 initialisation alike, the operator runs the noop provider
\* and its readiness check reports not ready.
C24_NoopAlwaysDegraded ==
    (RunsNoop /\ dnsProv.ready # "unknown") => dnsProv.ready # "ready"

\* C24: with no provider configured, or when Route53 initialisation fails,
\* the operator runs the noop provider, whose SetWeights changes nothing and
\* returns nil. The readiness check reports not ready after a failed Route53
\* initialisation; with no provider configured it reports ready whenever the
\* database is, as with a working Route53 provider. Both versions of the
\* readiness function agree.
C24_NoopFailOpenReadiness ==
    [][ /\ (dnsProv.region = "" \/ Route53InitFailed) <=> RunsNoop
        /\ RunsNoop =>
              /\ r53' = r53
              /\ dnsLog'.setErrors = <<>>
              /\ (dnsOp.pc = "calls" /\ dnsOp'.pc # "calls") =>
                    dnsCalls' = Append(dnsCalls, Head(dnsOp.pending))
        /\ Route53InitFailed => dnsProv'.ready # "ready"
        /\ ~Route53InitFailed => dnsProv'.ready # "dns provider not initialized"
        /\ \A dbErr \in BOOLEAN :
              /\ readiness(dbErr, dnsProv) = readinessProviderInit(dbErr, dnsProv)
              /\ (readiness(dbErr, dnsProv) = "") <=> (~dbErr /\ ~Route53InitFailed) ]_vars

\* C24 witness: with no region configured the operator ran a pass with the
\* noop provider: three SetWeights calls, no error, the zone untouched, and
\* the readiness check answered ready
C24_Witness ==
    /\ dnsProv.region = ""
    /\ RunsNoop
    /\ dnsOp.pc = "idle"
    /\ Len(dnsCalls) = 3
    /\ dnsLog.setErrors = <<>>
    /\ r53 = NewRoute53(0)
    /\ dnsProv.ready = "ready"

\* ---------------------------------------------------------------- usage claims
\* a step of the usage ingestor
IngestStep == ing' # ing

\* a step in which the billing worker commits its run
BillingCommits == tx[1].phase = "writing" /\ tx'[1].phase = "idle" /\ result'[1] = "ok"

\* C25: a usage-ingestor run never sets or changes the invoice_id of a usage
\* snapshot: in any interleaving of ingestor runs and billing runs an
\* invoice_id becomes non-null only in the commit of a billing run, an
\* ingestor step leaves every invoice_id as it is (also the one of a window
\* that is ingested again after it was invoiced) and inserts rows with a
\* null invoice_id, and an invoice_id that is set stays.
C25_IngestorLeavesInvoiceId ==
    [][ /\ Len(snapshots') >= Len(snapshots)
        /\ \A i \in Indices(snapshots) :
              /\ snapshots'[i].id = snapshots[i].id
              /\ IngestStep => snapshots'[i].invoice_id = snapshots[i].invoice_id
              /\ snapshots[i].invoice_id.valid =>
                    snapshots'[i].invoice_id = snapshots[i].invoice_id
              /\ (~snapshots[i].invoice_id.valid /\ snapshots'[i].invoice_id.valid) =>
                    /\ BillingCommits
                    /\ \E j \in Indices(invoices') :
                          invoices'[j].id = snapshots'[i].invoice_id.int64
        /\ \A i \in Indices(snapshots') \ Indices(snapshots) :
              IngestStep /\ ~snapshots'[i].invoice_id.valid ]_vars

\* C25 witness: the window of service 1 was ingested with a quarter GiB and
\* invoiced for 3 cents; a second ingestor run has replaced its bytes by
\* half a GiB and returned nil, and the snapshot still has its invoice_id
C25_Witness ==
    /\ ing.runs = 2
    /\ ing.pc = "idle"
    /\ ing.ret = "nil"
    /\ Len(snapshots) = 1
    /\ snapshots[1].service_id = 1
    /\ snapshots[1].primary_bytes = GiB \div 2
    /\ snapshots[1].invoice_id = [valid |-> TRUE, int64 |-> 1]
    /\ Len(invoices) = 1
    /\ invoices[1].subtotal_cents = 3

\* the samples of a batch that count for a service and a window start: the
\* host is a domain of the service, the service is active, and the window
\* is a whole usage window
CountedFor(usages, serviceID, windowStart) ==
    {i \in Indices(usages) :
        /\ serviceID \in Services
        /\ \E d \in Range(AllServiceDomains) :
              d.Name = usages[i].Host /\ d.ServiceID = serviceID
        /\ usages[i].WindowStart = windowStart
        /\ windowStart % UsageWindow = 0
        /\ usages[i].WindowEnd - usages[i].WindowStart = UsageWindow}

RECURSIVE SumBytes(_, _)
SumBytes(usages, S) ==
    IF S = {} THEN 0
    ELSE LET i == CHOOSE j \in S : TRUE
         IN usages[i].Bytes + SumBytes(usages, S \ {i})

\* C26: for each (service_id, window_start) an ingestor run produces, the
\* snapshot it upserts carries the sum of the bytes of all accepted samples
\* of the domains of that service for that window; the sum is in
\* primary_bytes, backup_bytes is zero, and the window is one usage window
\* long. A run produces an upsert for exactly the services and windows that
\* have an accepted sample.
C26_SnapshotCarriesSum ==
    [][ (ing.pc = "idle" /\ ing'.pc = "upserting") =>
           /\ \A k \in DOMAIN ing'.pending :
                 LET counted == CountedFor(ing'.usages, k[1], k[2])
                 IN /\ counted # {}
                    /\ ing'.pending[k].ServiceID = k[1]
                    /\ ing'.pending[k].WindowStart = k[2]
                    /\ ing'.pending[k].WindowEnd = k[2] + UsageWindow
                    /\ ing'.pending[k].PrimaryBytes = SumBytes(ing'.usages, counted)
                    /\ ing'.pending[k].BackupBytes = 0
           /\ \A i \in Indices(ing'.usages) : \A serviceID \in Services :
                 i \in CountedFor(ing'.usages, serviceID, ing'.usages[i].WindowStart) =>
                    <<serviceID, ing'.usages[i].WindowStart>> \in DOMAIN ing'.pending ]_vars

\* C26 witness: the provider returned a quarter GiB for a and half a GiB for
\* b, both domains of service 1, and the run upserted three quarters of a
\* GiB as the primary_bytes of the window of service 1
C26_Witness ==
    /\ ing.ret = "nil"
    /\ ing.runs = 1
    /\ Len(snapshots) = 1
    /\ snapshots[1].service_id = 1
    /\ snapshots[1].window_start = 0
    /\ snapshots[1].primary_bytes = (GiB \div 4) + (GiB \div 2)
    /\ snapshots[1].backup_bytes = 0

\* ---------------------------------------------------------------- migration claims
\* the .sql files of EmbeddedFiles in lexicographic order: "1.sql" is a
\* prefix of nothing but sorts before "10.sql" because "." is below "0"
LexicographicOrder ==
    << <<"1", ".", "s", "q", "l">>,
       <<"1", "0", ".", "s", "q", "l">>,
       <<"2", ".", "s", "q", "l">> >>

\* the first version of LexicographicOrder that schema_migrations lacks
FirstMissing(schema) ==
    LexicographicOrder[CHOOSE i \in Indices(LexicographicOrder) :
                          /\ LexicographicOrder[i] \notin schema
                          /\ \A j \in 1..(i - 1) : LexicographicOrder[j] \in schema]

MigrationRunEnds(p) == mig.proc[p].pc = "applying" /\ mig'.proc[p].pc = "unlocking"

\* C27: a step of a starting binary p that changes the database applies
\* exactly one migration, the lexicographically first one that
\* schema_migrations lacks, and records its version in the same step, so
\* the bodies that ran and the versions recorded stay the same set and no
\* body runs twice, whichever binaries are starting; a run that ends on a
\* failed migration leaves the database as it was, and a binary not in its
\* loop applies nothing
C27_MigrationsInOrderOncePerVersion ==
    [][ /\ \/ mig'.log = mig.log /\ mig'.schema = mig.schema
           \/ \E p \in Procs :
                 /\ mig.proc[p].pc = "applying"
                 /\ mig.schema # Range(LexicographicOrder)
                 /\ mig'.log = Append(mig.log, [version |-> FirstMissing(mig.schema), proc |-> p])
                 /\ mig'.schema = mig.schema \cup {FirstMissing(mig.schema)}
        /\ {e.version : e \in Range(mig'.log)} = mig'.schema
        /\ Cardinality(mig'.schema) = Len(mig'.log)
        /\ \A p \in Procs :
              MigrationRunEnds(p) /\ mig'.proc[p].err
                 => mig'.log = mig.log /\ mig'.schema = mig.schema
      ]_vars

\* a first binary applied a migration and failed on the next one, and a
\* second binary applied the rest
C27_Witness ==
    /\ Len(mig.log) = Len(LexicographicOrder)
    /\ \E p, q \in Procs :
          /\ p # q
          /\ mig.proc[p].pc = "failed" /\ mig.proc[p].starts = 1
          /\ mig.log[1].proc = p
          /\ mig.log[2].proc = q
          /\ mig.log[3].proc = q
          /\ mig.proc[q].pc = "running"

\* C28: a binary waiting for the advisory lock gets past the wait in the
\* end, with every binary that holds the lock running on to its return and
\* no statement failing for ever
C28_WaitingBinaryAcquiresLock ==
    \A p \in Procs : (mig.proc[p].pc = "start") ~> (mig.proc[p].pc # "start")

\* ---------------------------------------------------------------- control plane claims
\* the request that connection r has just answered or written for
Serving(r) == ctl'.req[r] # ctl.req[r]

\* C29: a step of a request of customer c returns and changes only rows of
\* services that belong to c and were not deleted when the step was taken
C29_ScopedToCustomerAndNotDeleted ==
    [][ \A r \in Requests :
           Serving(r) =>
              /\ \A i \in Indices(ctl.services) :
                    ctl'.services[i] # ctl.services[i] =>
                       /\ ctl.services[i].CustomerID = ctl'.req[r].customerID
                       /\ ~ctl.services[i].Deleted
              /\ ctl'.req[r].pc = "done" =>
                    \A row \in Range(ctl'.req[r].body) :
                       /\ row.CustomerID = ctl'.req[r].customerID
                       /\ ~row.Deleted
      ]_vars

\* ---------------------------------------------------------------- coverage claims
\* the unit intervals [t, t+1) of the window that some storm covers; times
\* are whole units, so their number is the length of the union of the storms
\* clipped to the window
CoveredUnits(windowStart, windowEnd, storms) ==
    {t \in windowStart..(windowEnd - 1) :
        \E i \in Indices(storms) :
           /\ storms[i].started_at <= t
           /\ (~storms[i].ended_at.valid \/ storms[i].ended_at.time >= t + 1)}

\* C31: the ratio coverageRatio returned is the number of covered units of
\* the window over the window length, each unit counted once however many
\* storms cover it; it lies in [0, 1] and is 0 for a window of no length and
\* when no storm covers a unit of the window
C31_CoverageIsUnionOverWindow ==
    cov.called =>
       LET duration == cov.windowEnd - cov.windowStart
           covered == Cardinality(CoveredUnits(cov.windowStart, cov.windowEnd, cov.storms))
       IN /\ cov.ratio.den > 0
          /\ 0 <= cov.ratio.num /\ cov.ratio.num <= cov.ratio.den
          /\ IF duration <= 0 THEN cov.ratio.num = 0
             ELSE cov.ratio.num * duration = covered * cov.ratio.den

\* two storms that overlap inside the window cover a part of it, not all
C31_Witness ==
    /\ cov.called
    /\ Len(cov.storms) = 2
    /\ cov.storms[1].started_at >= cov.windowStart
    /\ cov.storms[2].started_at > cov.storms[1].started_at
    /\ cov.storms[1].ended_at.valid
    /\ cov.storms[1].ended_at.time > cov.storms[2].started_at
    /\ cov.storms[1].ended_at.time <= cov.windowEnd
    /\ 0 < cov.ratio.num
    /\ cov.ratio.num < cov.ratio.den

\* ---------------------------------------------------------------- paging claims
\* the listing has a weighted record set of the domain with this identifier
Lists(records, identifiers) ==
    \E i \in Indices(records) :
       /\ records[i].Name = fetch.domain \o <<".">>
       /\ records[i].Weight.valid
       /\ records[i].SetIdentifier \in identifiers

ListsBoth(records) ==
    Lists(records, {"primary", "Primary"}) /\ Lists(records, {"backup", "Backup"})

\* C33: an attempt that is listing record sets returns in the end; it
\* reports missing records only when the whole listing lacks one of the pair,
\* and when the listing lacks one it returns an error and submits no batch;
\* without an error it submits the batch of the pair
C33_PagingTerminatesAndMissingFails ==
    /\ (fetch.pc = "listing") ~> (fetch.pc = "returned")
    /\ [](fetch.pc = "returned" =>
            /\ ~ListsBoth(fetch.records) => fetch.err # "" /\ fetch.batch = NoBatch
            /\ fetch.err = "weighted records not found" => ~ListsBoth(fetch.records)
            /\ fetch.err = "" => Len(fetch.batch.Changes) = 2
            /\ fetch.err # "" => fetch.batch = NoBatch)

\* the listing was read to its end over several pages, one of the pair was
\* found and the other was not, and the attempt returned without a batch
C33_Witness ==
    /\ fetch.pc = "returned"
    /\ fetch.err = "weighted records not found"
    /\ fetch.start > 2
    /\ fetch.found.primary # <<>>
    /\ fetch.found.backup = <<>>
    /\ fetch.batch = NoBatch

\* ---------------------------------------------------------------- target claims
\* the three hosts probed for a domain and the labels of their targets
Probed(svc, dom) ==
    {[host |-> dom.Name, label |-> dom.Name],
     [host |-> svc.PrimaryCdn,
      label |-> dom.Name \o <<"@", "p", "r", "i", "m", "a", "r", "y", ":">> \o svc.PrimaryCdn],
     [host |-> svc.BackupCdn,
      label |-> dom.Name \o <<"@", "b", "a", "c", "k", "u", "p", ":">> \o svc.BackupCdn]}

\* a space between two other characters of the host
InnerSpace(host) ==
    \E i, j, k \in Indices(host) :
       i < j /\ j < k /\ host[i] # " " /\ host[j] = " " /\ host[k] # " "

\* the same name but for the case of its letters, for the names there are
SameName(a, b) == a = b \/ {a, b} = {<<"a">>, <<"A">>}

TargetsOf(dom) == {t \in tgt.targets : t.domainID = dom.ID}

\* what holds of the targets whatever the hosts are: every target has the
\* key service_id:domain_id:label, distinct targets have distinct keys, and
\* a target has the domain as its Host header when the hostname of its URL
\* is another name, and no Host header otherwise
KeysAndHostHeaders ==
    /\ \A t \in tgt.targets :
          \E dom \in tgt.domains :
             /\ t.domainID = dom.ID
             /\ key(t) = <<"1", ":">> \o Itoa(dom.ID) \o <<":">> \o t.metricsKey
             /\ t.hostHeader = IF SameName(Hostname(t.url), dom.Name) THEN <<>> ELSE dom.Name
    /\ \A t, u \in tgt.targets : t # u => key(t) # key(u)

\* C34 as stated: with both CDNs set, each domain has exactly the three
\* targets labelled d, d@primary:<cdn> and d@backup:<cdn>, with distinct
\* keys and the Host header where the URL's hostname is not d
C34_ThreeTargetsPerDomain ==
    (tgt.called /\ tgt.svc.PrimaryCdn # <<>> /\ tgt.svc.BackupCdn # <<>>) =>
       /\ \A dom \in tgt.domains :
             /\ {t.metricsKey : t \in TargetsOf(dom)} = {p.label : p \in Probed(tgt.svc, dom)}
             /\ Cardinality(TargetsOf(dom)) = 3
       /\ KeysAndHostHeaders

\* C34 amended: with both CDNs set, each domain has a target for each of
\* the three hosts whose probe URL can be built, labelled d,
\* d@primary:<cdn> and d@backup:<cdn>, and no target for a host that does
\* not parse as a URL host; keys are distinct and the Host header is set
\* where the URL's hostname is not d
C34_TargetsOfParsableHosts ==
    (tgt.called /\ tgt.svc.PrimaryCdn # <<>> /\ tgt.svc.BackupCdn # <<>>) =>
       /\ \A dom \in tgt.domains :
             /\ {t.metricsKey : t \in TargetsOf(dom)}
                   = {p.label : p \in {q \in Probed(tgt.svc, dom) : ~InnerSpace(q.host)}}
             /\ Cardinality(TargetsOf(dom))
                   = Cardinality({q \in Probed(tgt.svc, dom) : ~InnerSpace(q.host)})
       /\ KeysAndHostHeaders

\* two domains, a primary CDN that is the first domain in upper case and a
\* backup CDN with a port: six targets, the primary target of the first
\* domain without a Host header
C34_Witness ==
    /\ tgt.called
    /\ tgt.svc.PrimaryCdn = <<"A">>
    /\ tgt.svc.BackupCdn = <<"p", ":", "8">>
    /\ Cardinality(tgt.domains) = 2
    /\ Cardinality(tgt.targets) = 6
    /\ \E t \in tgt.targets :
          /\ t.metricsKey = <<"a", "@", "p", "r", "i", "m", "a", "r", "y", ":", "A">>
          /\ t.hostHeader = <<>>
    /\ \E t \in tgt.targets :
          /\ t.metricsKey = <<"B", "@", "b", "a", "c", "k", "u", "p", ":", "p", ":", "8">>
          /\ t.hostHeader = <<"B">>
          /\ Hostname(t.url) = <<"p">>

====
